---- MODULE Spec2Model ----
(***************************************************************************)
(* Model of the scan pipeline of super_intelligent_scanner:                *)
(*   core/request_manager.py  RequestManager._should_retry, smart_request  *)
(*   core/scanner_engine.py   ScannerEngine.__init__, scan_paths and its   *)
(*                            nested scan_single_path, the discovery and   *)
(*                            reporting phases                             *)
(*   core/healing_engine.py   HealingEngine.execute_with_retry             *)
(*   discovery/quantum_fuzzer.py, discovery/intelligent_crawler.py         *)
(*   main.py                  signal_handler, validate_and_fix_url,        *)
(*                            batch_scan_mode                              *)
(*   utils/config_loader.py   DEFAULT_CONFIG, VALIDATION_RULES,            *)
(*                            load_config                                  *)
(*   utils/proxy_manager.py   ProxyManager                                 *)
(* Strings the code inspects (bodies, content types) are tuples of         *)
(* one-character strings, so that lower() and the substring tests are      *)
(* computed as the code computes them.                                     *)
(***************************************************************************)
EXTENDS Integers, Sequences, FiniteSets, TLC

VARIABLES
    config,        \* ScannerEngine.config: the 'scanning' options the scan reads
    max_retries,   \* RequestManager.max_retries of ScannerEngine.request_manager
    base_url,      \* argument base_url of scan_paths
    paths,         \* argument paths of scan_paths (list of path strings)
    stub,          \* the HTTP layer: path -> outcomes session.request may produce
    mainpc,        \* position of the thread that called scan_paths
    submitted,     \* number of paths already handed to executor.submit
    queue,         \* work queue of the ThreadPoolExecutor (indexes into paths)
    fresult,       \* finished futures: index -> dict returned by scan_single_path
    yielded,       \* futures as_completed has already yielded
    results,       \* local list results of scan_paths
    completed,     \* local counter completed of scan_paths
    found_count,   \* nonlocal counter found_count
    error_count,   \* nonlocal counter error_count
    returned,      \* what scan_paths handed back to its caller
    interrupted,   \* signal_handler has run (SIGINT/SIGTERM)
    wpc,           \* per worker thread: position inside scan_single_path
    wtask,         \* per worker thread: index of the path it is scanning (0: none)
    attempt,       \* per worker thread: loop variable attempt of smart_request
    wtmp,          \* per worker thread: counter value loaded by a pending +=
    wres,          \* per worker thread: dict result built by scan_single_path
    sent,          \* per path index: number of session.request calls issued
    history,       \* per path index: class of every outcome the HTTP layer gave
    last,          \* per path index: the last outcome the HTTP layer gave
    scan_results,  \* local scan_results of start_scan: the list scan_paths returned
    stealth_mode,  \* config['evasion']['stealth_mode']
    auto_download, \* config['resources']['auto_download']
    crawler,       \* self.intelligent_crawler: absent, raising, or the paths it returns
    randoms,       \* the digits random.randint gives generate_natural_variations
    dpc,           \* position inside advanced_discovery_phase
    base_paths,    \* local base_paths of advanced_discovery_phase
    all_paths,     \* local set all_paths, in an iteration order
    final_paths,   \* the list advanced_discovery_phase returns
    qpc,           \* position inside QuantumFuzzer.generate_quantum_states
    qpath,         \* argument path of generate_quantum_states
    qrandom,       \* the draws random.random gives random_case
    states         \* local set states of generate_quantum_states

\* the state of advanced_discovery_phase and of generate_quantum_states
discovery_vars == <<stealth_mode, auto_download, crawler, randoms, dpc,
                    base_paths, all_paths, final_paths>>
fuzzer_vars == <<qpc, qpath, qrandom, states>>

\* -- components with a specification of their own: state --

\* one call of RequestManager.smart_request
VARIABLES
    rq_max_retries,  \* self.max_retries of the RequestManager
    rq_evasion,      \* self.enable_evasion
    rq_pc,           \* position inside smart_request
    rq_attempt,      \* loop variable attempt
    rq_sent,         \* number of session.request calls of this call
    rq_waits,        \* the sleeps of this call: after which attempt, why, base delay, jitter
    rq_result        \* what smart_request returned

request_vars == <<rq_max_retries, rq_evasion, rq_pc, rq_attempt, rq_sent,
                  rq_waits, rq_result>>

\* ConfigLoader.load_config and the entry of scan_paths
VARIABLES
    ld_file,        \* the 'scanning' options config.yaml sets
    ld_config,      \* the 'scanning' options load_config returned
    ld_errors,      \* validation_errors of load_config: the key paths reported
    ld_pc,          \* position: load_config, scan_paths, its executor
    ld_pool,        \* max_workers of the ThreadPoolExecutor of scan_paths (0: none)
    ld_dispatched,  \* number of probes handed to executor.submit
    ld_error        \* the exception that ended the scan

load_vars == <<ld_file, ld_config, ld_errors, ld_pc, ld_pool, ld_dispatched,
               ld_error>>

\* main.batch_scan_mode
VARIABLES
    bt_urls,       \* urls: the non-empty stripped lines of the input file
    bt_i,          \* number of lines the for loop is done with
    bt_pc,         \* position inside the loop body
    bt_target,     \* local validated_url
    bt_attempted,  \* indexes of the lines start_scan was called for, in call order
    bt_report      \* what was printed per line: <<index, skipped | completed | failed>>

batch_vars == <<bt_urls, bt_i, bt_pc, bt_target, bt_attempted, bt_report>>

\* one call of QuantumFuzzer.generate_quantum_paths
VARIABLES
    qp_bases,  \* argument base_paths
    qp_max,    \* argument max_paths
    qp_i,      \* number of base paths the for loop is done with
    qp_pc,     \* position inside generate_quantum_paths
    qp_paths,  \* local set quantum_paths, in insertion order
    qp_final   \* the list generate_quantum_paths returns

qpaths_vars == <<qp_bases, qp_max, qp_i, qp_pc, qp_paths, qp_final>>

\* one call of HealingEngine.execute_with_retry
VARIABLES
    hl_max_retries,  \* HealingEngine.max_retries
    hl_attempt,      \* loop variable attempt of execute_with_retry
    hl_pc,           \* position inside execute_with_retry
    hl_calls,        \* the calls of func so far: what each one did
    hl_heals,        \* the healing strategies applied so far
    hl_outcome       \* how execute_with_retry ended

heal_vars == <<hl_max_retries, hl_attempt, hl_pc, hl_calls, hl_heals,
               hl_outcome>>

\* one call of intelligent_crawler
VARIABLES
    cr_site,        \* the site: the URLs extract_paths_from_html finds on each page
    cr_max_pages,   \* argument max_pages
    cr_to_visit,    \* deque to_visit
    cr_visited,     \* set visited
    cr_discovered,  \* set discovered_paths
    cr_requests,    \* the URLs session.get was called for, in order
    cr_pc           \* position inside intelligent_crawler

crawl_vars == <<cr_site, cr_max_pages, cr_to_visit, cr_visited, cr_discovered,
                cr_requests, cr_pc>>

\* one call of ScannerEngine.final_reporting_phase
VARIABLES
    rp_results,      \* argument scan_results: the list scan_paths returned
    rp_found_count,  \* found_count of scan_paths when it returned
    rp_error_count,  \* error_count of scan_paths when it returned
    rp_report,       \* the dict final_report: its counts and successful_paths
    rp_pc            \* position inside final_reporting_phase

report_vars == <<rp_results, rp_found_count, rp_error_count, rp_report,
                 rp_pc>>

\* a ProxyManager and the calls made on it
VARIABLES
    px_proxies,        \* ProxyManager.proxies
    px_current_index,  \* ProxyManager.current_index
    px_last            \* how the last call of get_next_proxy ended

proxy_vars == <<px_proxies, px_current_index, px_last>>

\* the state of the components that are driven on their own
side_vars == <<request_vars,
               load_vars,
               batch_vars,
               qpaths_vars,
               heal_vars,
               crawl_vars,
               report_vars,
               proxy_vars>>


\* -- all variables --
vars == <<config, max_retries, base_url, paths, stub, mainpc, submitted, queue,
          fresult, yielded, results, completed, found_count, error_count,
          returned, interrupted, wpc, wtask, attempt, wtmp, wres, sent,
          history, last, scan_results, discovery_vars, fuzzer_vars, side_vars>>

-----------------------------------------------------------------------------
(* Bounds of the model *)

NumPaths == 2
MaxWorkers == 2
MaxLateRecords == 1
MaxTargets == 2

-----------------------------------------------------------------------------
(* Program constants *)

DEFAULT_MAX_RETRIES == 3
DEFAULT_CONFIG_MAX_RETRIES == 3
DEFAULT_CONFIG_TIMEOUT == 15
MIN_CONFIG_MAX_RETRIES == 1
MAX_CONFIG_MAX_RETRIES == 10
LENGTH_THRESHOLD == 20

-----------------------------------------------------------------------------
(* Strings as tuples of characters *)

UpperToLower ==
    [A |-> "a", B |-> "b", C |-> "c", D |-> "d", E |-> "e", F |-> "f",
     G |-> "g", H |-> "h", I |-> "i", J |-> "j", K |-> "k", L |-> "l",
     M |-> "m", N |-> "n", O |-> "o", P |-> "p", Q |-> "q", R |-> "r",
     S |-> "s", T |-> "t", U |-> "u", V |-> "v", W |-> "w", X |-> "x",
     Y |-> "y", Z |-> "z"]

\* str.lower()
Lower(s) ==
    [i \in 1..Len(s) |-> IF s[i] \in DOMAIN UpperToLower THEN UpperToLower[s[i]] ELSE s[i]]

\* Python's  sub in s  for a non-empty sub
Contains(s, sub) ==
    \E i \in 1..(Len(s) - Len(sub) + 1) : SubSeq(s, i, i + Len(sub) - 1) = sub

\* the indicator list of _should_retry
WAF_INDICATORS ==
    { <<"c", "l", "o", "u", "d", "f", "l", "a", "r", "e">>,
      <<"w", "a", "f">>,
      <<"c", "h", "a", "l", "l", "e", "n", "g", "e">>,
      <<"c", "a", "p", "t", "c", "h", "a">>,
      <<"s", "e", "c", "u", "r", "i", "t", "y">> }

\* the text_type list of scan_single_path
TEXT_TYPES ==
    { <<"t", "e", "x", "t">>,
      <<"j", "s", "o", "n">>,
      <<"j", "a", "v", "a", "s", "c", "r", "i", "p", "t">>,
      <<"h", "t", "m", "l">>,
      <<"x", "m", "l">> }

-----------------------------------------------------------------------------
(* The HTTP layer: what session.request can produce *)

CT_JSON == <<"a", "p", "p", "l", "i", "c", "a", "t", "i", "o", "n", "/", "j", "s", "o", "n">>
CT_HTML == <<"t", "e", "x", "t", "/", "h", "t", "m", "l">>
CT_PLAIN == <<"t", "e", "x", "t", "/", "p", "l", "a", "i", "n">>
CT_PNG == <<"i", "m", "a", "g", "e", "/", "p", "n", "g">>
\* response.headers.get('content-type', '') of a response without the header
CT_NONE == <<>>

\* responses by name: status_code, the content-type header, the body
Response ==
    [ api    |-> [status_code |-> 200, content_type |-> CT_JSON,
                  text |-> <<"{", "\"", "o", "k", "\"", ":", "t", "r", "u", "e", "}">>],
      admin  |-> [status_code |-> 403, content_type |-> CT_PLAIN,
                  text |-> <<"F", "o", "r", "b", "i", "d", "d", "e", "n">>],
      health |-> [status_code |-> 200, content_type |-> CT_PLAIN, text |-> <<>>],
      html19 |-> [status_code |-> 200, content_type |-> CT_HTML,
                  text |-> <<"<", "h", "t", "m", "l", ">", "p", "a", "g", "e", "1", "9",
                             "<", "/", "h", "t", "m", "l", ">">>],
      html20 |-> [status_code |-> 200, content_type |-> CT_HTML,
                  text |-> <<"<", "h", "t", "m", "l", ">", "p", "a", "g", "e", "0", "2", "0",
                             "<", "/", "h", "t", "m", "l", ">">>],
      html21 |-> [status_code |-> 200, content_type |-> CT_HTML,
                  text |-> <<"<", "h", "t", "m", "l", ">", "p", "a", "g", "e", "0", "0", "2", "1",
                             "<", "/", "h", "t", "m", "l", ">">>],
      r404   |-> [status_code |-> 404, content_type |-> CT_HTML,
                  text |-> <<"N", "o", "t", " ", "F", "o", "u", "n", "d">>],
      r429   |-> [status_code |-> 429, content_type |-> CT_PLAIN,
                  text |-> <<"S", "l", "o", "w", " ", "d", "o", "w", "n">>],
      r500   |-> [status_code |-> 500, content_type |-> CT_HTML,
                  text |-> <<"S", "e", "r", "v", "e", "r", " ", "E", "r", "r", "o", "r">>],
      waf403 |-> [status_code |-> 403, content_type |-> CT_HTML,
                  text |-> <<"C", "l", "o", "u", "d", "f", "l", "a", "r", "e">>],
      r420   |-> [status_code |-> 420, content_type |-> CT_PLAIN,
                  text |-> <<"E", "n", "h", "a", "n", "c", "e", " ", "y", "o", "u", "r", " ", "c", "a", "l", "m">>],
      waf406 |-> [status_code |-> 406, content_type |-> CT_HTML,
                  text |-> <<"S", "o", "l", "v", "e", " ", "t", "h", "e", " ", "C", "A", "P", "T", "C", "H", "A">>],
      r406   |-> [status_code |-> 406, content_type |-> CT_PLAIN,
                  text |-> <<"N", "o", "t", " ", "A", "c", "c", "e", "p", "t", "a", "b", "l", "e">>],
      r301   |-> [status_code |-> 301, content_type |-> CT_HTML,
                  text |-> <<"M", "o", "v", "e", "d">>],
      png21  |-> [status_code |-> 200, content_type |-> CT_PNG,
                  text |-> <<"P", "N", "G", ":", " ", "2", "1", " ", "b", "y", "t", "e", "s", " ", "o", "f", " ", "d", "a", "t", "a">>],
      nohdr21 |-> [status_code |-> 200, content_type |-> CT_NONE,
                  text |-> <<"2", "1", " ", "b", "y", "t", "e", "s", " ", "-", " ", "n", "o", " ", "h", "e", "a", "d", "e", "r", "!">>] ]

\* exceptions session.request can raise
Exceptions == {"Timeout", "ConnectionError"}

Outcomes == DOMAIN Response \cup Exceptions

\* len(response.content): the body is ASCII, one byte per character
ContentLength(resp) == Len(resp.text)

-----------------------------------------------------------------------------
(* RequestManager._should_retry: <<should_retry, wait_time>> *)

\* variant: every status from 400 on is taken for a server error
ShouldRetryFrom400(resp, att) ==
    IF resp.status_code \in {429, 420} THEN <<TRUE, (att + 1) * 5>>
    ELSE IF resp.status_code >= 400 THEN <<TRUE, (att + 1) * 3>>
    ELSE <<FALSE, 0>>

\* variant: status 420 is not taken for rate limiting
ShouldRetryOnly429(resp, att) ==
    IF resp.status_code = 429 THEN <<TRUE, (att + 1) * 5>>
    ELSE IF resp.status_code >= 500 THEN <<TRUE, (att + 1) * 3>>
    ELSE IF /\ resp.status_code \in {403, 406}
            /\ \E indicator \in WAF_INDICATORS : Contains(Lower(resp.text), indicator)
         THEN <<TRUE, (att + 1) * 4>>
    ELSE <<FALSE, 0>>

ShouldRetry(resp, att) ==
    IF resp.status_code \in {429, 420} THEN <<TRUE, (att + 1) * 5>>
    ELSE IF resp.status_code >= 500 THEN <<TRUE, (att + 1) * 3>>
    ELSE IF /\ resp.status_code \in {403, 406}
            /\ \E indicator \in WAF_INDICATORS : Contains(Lower(resp.text), indicator)
         THEN <<TRUE, (att + 1) * 4>>
    ELSE <<FALSE, 0>>

\* variant: every  continue  is taken
MayContinueAlways(att, maxr) == TRUE

\* variant: the guard compares with max_retries instead of max_retries - 1
MayContinueOffByOne(att, maxr) == att < maxr

\* the test  attempt < self.max_retries - 1  guarding every  continue
MayContinue(att, maxr) == att < maxr - 1

-----------------------------------------------------------------------------
(* scan_single_path: the dicts it returns *)

\* urljoin(base_url, path) for a path that begins with "/"
UrlJoin(base, path) == base \o path

\* variant: the length test only rejects empty bodies
IsFindingNonEmpty(status_code, content_length, content_type) ==
    /\ status_code = 200
    /\ content_length > 0
    /\ \E text_type \in TEXT_TYPES : Contains(Lower(content_type), text_type)

\* variant: the length test is >= instead of >
IsFindingInclusive(status_code, content_length, content_type) ==
    /\ status_code = 200
    /\ content_length >= LENGTH_THRESHOLD
    /\ \E text_type \in TEXT_TYPES : Contains(Lower(content_type), text_type)

\* the finding test of scan_single_path
IsFinding(status_code, content_length, content_type) ==
    /\ status_code = 200
    /\ content_length > LENGTH_THRESHOLD
    /\ \E text_type \in TEXT_TYPES : Contains(Lower(content_type), text_type)

\* the dict result, before 'saved' is added
ResultDict(base, path, resp) ==
    [url |-> UrlJoin(base, path),
     path |-> path,
     status_code |-> resp.status_code,
     content_length |-> ContentLength(resp),
     content_type |-> resp.content_type,
     success |-> IsFinding(resp.status_code, ContentLength(resp), resp.content_type)]

\* variant: a finding whose content was not saved loses its flag
WithSavedAsSuccess(result, save_success) ==
    [k \in DOMAIN result \cup {"saved"} |->
        IF k \in {"saved", "success"} THEN save_success ELSE result[k]]

\* result['saved'] = save_success
WithSaved(result, save_success) ==
    [k \in DOMAIN result \cup {"saved"} |->
        IF k = "saved" THEN save_success ELSE result[k]]

\* variant: the error dict also carries a status
ErrorDictWithStatus(base, path) ==
    [url |-> UrlJoin(base, path), path |-> path, status_code |-> 0,
     error |-> "request_failed"]

\* the dict returned when smart_request gave None
ErrorDict(base, path) ==
    [url |-> UrlJoin(base, path), path |-> path, error |-> "request_failed"]

\* variant: only dicts that carry a status are kept
AppendResultWithStatus(res, result) ==
    IF "status_code" \in DOMAIN result THEN Append(res, result) ELSE res

\* if result: results.append(result)
AppendResult(res, result) ==
    IF DOMAIN result # {} THEN Append(res, result) ELSE res

-----------------------------------------------------------------------------
(* Inputs *)

PathCatalog == <<"/api", "/admin", "/health", "/login", "/status">>

\* the stub of the end-to-end scenario
EndToEndStub ==
    [p \in {"/api", "/admin", "/health"} |->
        IF p = "/api" THEN {"api"} ELSE IF p = "/admin" THEN {"admin"} ELSE {"health"}]

\* a server that may answer anything, any time
AnyStub(ps) == [p \in ps |-> Outcomes]

\* a server whose paths fail in different ways: a page, a 404 or timeouts
\* for /api, a page, server errors or timeouts for /admin, a 404 or
\* timeouts for the others
MixedStub(ps) ==
    [p \in ps |-> IF p = "/api" THEN {"html21", "r404", "Timeout"}
                  ELSE IF p = "/admin" THEN {"html21", "r500", "Timeout"}
                  ELSE {"r404", "Timeout"}]

\* a server that never answers /api in time, answers /admin with a page
\* or a server error and the other paths with a 404
TimeoutStub(ps) ==
    [p \in ps |-> IF p = "/api" THEN {"Timeout"}
                  ELSE IF p = "/admin" THEN {"html21", "r500"}
                  ELSE {"r404"}]

Range(s) == {s[i] : i \in 1..Len(s)}

\* the single path of the scans against AnyStub
OnePath == <<"/login">>

\* the scans of the model: the end-to-end scenario, one path against a
\* server that may answer anything, NumPaths paths against a mixed server
Scenarios ==
    { [paths |-> <<"/api", "/admin", "/health">>, stub |-> EndToEndStub],
      [paths |-> OnePath, stub |-> AnyStub(Range(OnePath))],
      [paths |-> SubSeq(PathCatalog, 1, NumPaths),
       stub |-> MixedStub(Range(SubSeq(PathCatalog, 1, NumPaths)))] }

\* variant: the pool is created without max_workers and runs every thread
WorkersUnbounded == 1..MaxWorkers

\* the threads of ThreadPoolExecutor(max_workers=scan_config['max_workers'])
Workers == 1..config.max_workers

Idx == 1..Len(paths)

NoDict == [x \in {} |-> 0]

\* -- components with a specification of their own: at rest --

\* no call of smart_request is looked at on its own
RequestIdle ==
    /\ rq_max_retries = DEFAULT_MAX_RETRIES
    /\ rq_evasion = TRUE
    /\ rq_pc = "idle"
    /\ rq_attempt = 0
    /\ rq_sent = 0
    /\ rq_waits = <<>>
    /\ rq_result = "none"

\* the loading of the configuration is not looked at on its own
LoadIdle ==
    /\ ld_file = [max_workers |-> 10, timeout |-> 15, max_retries |-> 3]
    /\ ld_config = [max_workers |-> 10, timeout |-> 15, max_retries |-> 3]
    /\ ld_errors = {}
    /\ ld_pc = "idle"
    /\ ld_pool = 0
    /\ ld_dispatched = 0
    /\ ld_error = "none"

\* no batch is run
BatchIdle ==
    /\ bt_urls = <<>>
    /\ bt_i = 0
    /\ bt_pc = "idle"
    /\ bt_target = <<>>
    /\ bt_attempted = <<>>
    /\ bt_report = <<>>

\* no call of generate_quantum_paths
QpathsIdle ==
    /\ qp_bases = <<>>
    /\ qp_max = 0
    /\ qp_i = 0
    /\ qp_pc = "idle"
    /\ qp_paths = <<>>
    /\ qp_final = <<>>

\* no call of execute_with_retry
HealIdle ==
    /\ hl_max_retries = 0
    /\ hl_attempt = 0
    /\ hl_pc = "idle"
    /\ hl_calls = <<>>
    /\ hl_heals = <<>>
    /\ hl_outcome = [kind |-> "none"]

\* no call of intelligent_crawler
CrawlIdle ==
    /\ cr_site = <<>>
    /\ cr_max_pages = 0
    /\ cr_to_visit = <<>>
    /\ cr_visited = {}
    /\ cr_discovered = {}
    /\ cr_requests = <<>>
    /\ cr_pc = "idle"

\* no call of final_reporting_phase
ReportIdle ==
    /\ rp_results = <<>>
    /\ rp_found_count = 0
    /\ rp_error_count = 0
    /\ rp_report = NoDict
    /\ rp_pc = "idle"

\* no ProxyManager
ProxyIdle ==
    /\ px_proxies = <<>>
    /\ px_current_index = 0
    /\ px_last = "none"

\* none of the components that are driven on their own is in use
SideIdle ==
    /\ RequestIdle
    /\ LoadIdle
    /\ BatchIdle
    /\ QpathsIdle
    /\ HealIdle
    /\ CrawlIdle
    /\ ReportIdle
    /\ ProxyIdle


\* advanced_discovery_phase is over and is not looked at
DiscoveryOver ==
    /\ stealth_mode = TRUE
    /\ auto_download = TRUE
    /\ crawler = [kind |-> "absent", paths |-> <<>>]
    /\ randoms = <<>>
    /\ dpc = "done"
    /\ base_paths = <<>>
    /\ all_paths = <<>>
    /\ final_paths = <<>>

\* no call of generate_quantum_states
FuzzerIdle ==
    /\ qpc = "idle"
    /\ qpath = <<>>
    /\ qrandom = <<>>
    /\ states = {}

-----------------------------------------------------------------------------
(* Initial state: a ScannerEngine has been constructed and scan_paths entered *)

Init ==
    /\ config \in [max_workers : 1..MaxWorkers, max_retries : {DEFAULT_CONFIG_MAX_RETRIES},
                   timeout : {DEFAULT_CONFIG_TIMEOUT}]
    /\ max_retries = DEFAULT_MAX_RETRIES
    /\ base_url = "https://example.test"
    /\ \E sc \in Scenarios : paths = sc.paths /\ stub = sc.stub
    /\ mainpc = "submit"
    /\ submitted = 0
    /\ queue = <<>>
    /\ fresult = NoDict
    /\ yielded = {}
    /\ results = <<>>
    /\ completed = 0
    /\ found_count = 0
    /\ error_count = 0
    /\ returned = [done |-> FALSE, value |-> <<>>]
    /\ interrupted = FALSE
    /\ wpc = [w \in 1..MaxWorkers |-> "idle"]
    /\ wtask = [w \in 1..MaxWorkers |-> 0]
    /\ attempt = [w \in 1..MaxWorkers |-> 0]
    /\ wtmp = [w \in 1..MaxWorkers |-> 0]
    /\ wres = [w \in 1..MaxWorkers |-> NoDict]
    /\ sent = [i \in Idx |-> 0]
    /\ history = [i \in Idx |-> <<>>]
    /\ last = [i \in Idx |-> "none"]
    /\ scan_results = <<>>
    /\ DiscoveryOver
    /\ FuzzerIdle
    /\ SideIdle

-----------------------------------------------------------------------------
(* RequestManager.smart_request: one pass through the body of the for loop *)

\* variant: the loop runs over range(self.max_retries - 1)
NextIterationShort(att, maxr) ==
    IF att + 1 < maxr - 1 THEN "next_attempt" ELSE "return_none"

\* for attempt in range(self.max_retries): after iteration att the loop goes
\* on with the next attempt, or is over and smart_request returns None
NextIteration(att, maxr) ==
    IF att + 1 < maxr THEN "next_attempt" ELSE "return_none"

\* what the body of the loop does with the outcome o of session.request:
\* it returns the response, or it ends the iteration (by continue after a
\* sleep, or by leaving an except block) and the for statement decides
SmartRequestStep(o, att, maxr) ==
    IF o \in Exceptions
    THEN NextIteration(att, maxr)
    ELSE IF ShouldRetry(Response[o], att)[1] /\ MayContinue(att, maxr)
         THEN NextIteration(att, maxr)
         ELSE "return_response"

\* how the stub labels its own outcomes
OutcomeKind(o) ==
    IF o \in Exceptions THEN "exception"
    ELSE IF o \in {"r429", "r420", "r500", "waf403", "waf406"} THEN "retryable"
    ELSE "final"

\* variant: the thread ends after its first work item
ReleaseAndQuit(w) ==
    /\ wpc' = [wpc EXCEPT ![w] = "quit"]
    /\ wtask' = [wtask EXCEPT ![w] = 0]
    /\ attempt' = [attempt EXCEPT ![w] = 0]
    /\ wtmp' = [wtmp EXCEPT ![w] = 0]
    /\ wres' = [wres EXCEPT ![w] = NoDict]

\* the worker thread is back in the executor's loop
Release(w) ==
    /\ wpc' = [wpc EXCEPT ![w] = "idle"]
    /\ wtask' = [wtask EXCEPT ![w] = 0]
    /\ attempt' = [attempt EXCEPT ![w] = 0]
    /\ wtmp' = [wtmp EXCEPT ![w] = 0]
    /\ wres' = [wres EXCEPT ![w] = NoDict]

-----------------------------------------------------------------------------
(* The thread that runs scan_paths *)

\* executor.submit(scan_single_path, path), one path of the comprehension
Submit ==
    /\ mainpc = "submit"
    /\ submitted < Len(paths)
    /\ submitted' = submitted + 1
    /\ queue' = Append(queue, submitted + 1)
    /\ mainpc' = IF submitted + 1 = Len(paths) THEN "collect" ELSE "submit"
    /\ UNCHANGED <<scan_results, discovery_vars, fuzzer_vars, side_vars>>
    /\ UNCHANGED <<config, max_retries, base_url, paths, stub, fresult, yielded,
                   results, completed, found_count, error_count, returned,
                   interrupted, wpc, wtask, attempt, wtmp, wres, sent, history, last>>

\* one iteration of  for future in as_completed(future_to_path); the except
\* branch is not reached: scan_single_path catches every Exception itself
Collect ==
    /\ mainpc = "collect"
    /\ \E i \in DOMAIN fresult \ yielded :
          /\ yielded' = yielded \cup {i}
          /\ results' = AppendResult(results, fresult[i])
    /\ completed' = completed + 1
    /\ UNCHANGED <<scan_results, discovery_vars, fuzzer_vars, side_vars>>
    /\ UNCHANGED <<config, max_retries, base_url, paths, stub, mainpc, submitted,
                   queue, fresult, found_count, error_count, returned, interrupted,
                   wpc, wtask, attempt, wtmp, wres, sent, history, last>>

\* as_completed is exhausted, the with block ends, return results
Return ==
    /\ mainpc = "collect"
    /\ yielded = Idx
    /\ mainpc' = "returned"
    /\ returned' = [done |-> TRUE, value |-> results]
    /\ scan_results' = results
    /\ UNCHANGED <<discovery_vars, fuzzer_vars, side_vars>>
    /\ UNCHANGED <<config, max_retries, base_url, paths, stub, submitted, queue,
                   fresult, yielded, results, completed, found_count, error_count,
                   interrupted, wpc, wtask, attempt, wtmp, wres, sent, history, last>>

\* main.signal_handler: current_scanner has no stop_scan, sys.exit(1) raises
\* SystemExit in the thread inside the with block
Signal ==
    /\ mainpc \in {"submit", "collect"}
    /\ interrupted' = TRUE
    /\ mainpc' = "shutdown"
    /\ UNCHANGED <<scan_results, discovery_vars, fuzzer_vars, side_vars>>
    /\ UNCHANGED <<config, max_retries, base_url, paths, stub, submitted, queue,
                   fresult, yielded, results, completed, found_count, error_count,
                   returned, wpc, wtask, attempt, wtmp, wres, sent, history, last>>

\* ThreadPoolExecutor.__exit__ is shutdown(wait=True): it joins the workers,
\* then SystemExit leaves scan_paths without a return value
Exit ==
    /\ mainpc = "shutdown"
    /\ queue = <<>>
    /\ \A w \in Workers : wpc[w] = "idle"
    /\ mainpc' = "exited"
    /\ UNCHANGED <<scan_results, discovery_vars, fuzzer_vars, side_vars>>
    /\ UNCHANGED <<config, max_retries, base_url, paths, stub, submitted, queue,
                   fresult, yielded, results, completed, found_count, error_count,
                   returned, interrupted, wpc, wtask, attempt, wtmp, wres, sent,
                   history, last>>

-----------------------------------------------------------------------------
(* The worker threads of the pool *)

\* variant: the thread lowers the number of workers, as quick_scan_mode does
\* to its own configuration before a scan
ScanSinglePathClampsConfig == config' = [config EXCEPT !.max_workers = 1]

\* scan_single_path reads self.config and scan_config and assigns to no key
\* of either
ScanSinglePathReadsConfig == UNCHANGED config

\* a pool thread takes the next work item and enters scan_single_path; the
\* threads are interchangeable, the idle one with the lowest number takes it
TakeWork(w) ==
    /\ wpc[w] = "idle"
    /\ \A v \in 1..(w - 1) : wpc[v] # "idle"
    /\ queue # <<>>
    /\ wtask' = [wtask EXCEPT ![w] = Head(queue)]
    /\ queue' = Tail(queue)
    /\ wpc' = [wpc EXCEPT ![w] = "request"]
    /\ ScanSinglePathReadsConfig
    /\ UNCHANGED <<scan_results, discovery_vars, fuzzer_vars, side_vars>>
    /\ UNCHANGED <<max_retries, base_url, paths, stub, mainpc, submitted,
                   fresult, yielded, results, completed, found_count, error_count,
                   returned, interrupted, attempt, wtmp, wres, sent, history, last>>

\* variant: the request is handed to the network and the loop goes on
\* without blocking on its outcome
SendWithoutWaiting(w) ==
    /\ wpc[w] = "request"
    /\ sent' = [sent EXCEPT ![wtask[w]] = @ + 1]
    /\ UNCHANGED <<scan_results, discovery_vars, fuzzer_vars, side_vars>>
    /\ UNCHANGED <<config, max_retries, base_url, paths, stub, mainpc, submitted,
                   queue, fresult, yielded, results, completed, found_count,
                   error_count, returned, interrupted, wpc, wtask, attempt, wtmp,
                   wres, history, last>>

\* smart_request calls session.request: the request is in flight and the
\* thread blocks in the call
Send(w) ==
    /\ wpc[w] = "request"
    /\ sent' = [sent EXCEPT ![wtask[w]] = @ + 1]
    /\ wpc' = [wpc EXCEPT ![w] = "await"]
    /\ UNCHANGED <<scan_results, discovery_vars, fuzzer_vars, side_vars>>
    /\ UNCHANGED <<config, max_retries, base_url, paths, stub, mainpc, submitted,
                   queue, fresult, yielded, results, completed, found_count,
                   error_count, returned, interrupted, wtask, attempt, wtmp, wres,
                   history, last>>

\* session.request ends with a response or an exception: the rest of the
\* attempt (the retry decision and its sleep) and, when it ends the loop, the
\* code of scan_single_path up to its next access to shared state
Attempt(w) ==
    /\ wpc[w] = "await"
    /\ \E o \in stub[paths[wtask[w]]] :
        LET i == wtask[w]
            step == SmartRequestStep(o, attempt[w], max_retries)
            result == ResultDict(base_url, paths[i], Response[o])
        IN  /\ history' = [history EXCEPT ![i] = Append(@, OutcomeKind(o))]
            /\ last' = [last EXCEPT ![i] = o]
            /\ CASE step = "next_attempt" ->
                      /\ attempt' = [attempt EXCEPT ![w] = @ + 1]
                      /\ wpc' = [wpc EXCEPT ![w] = "request"]
                      /\ UNCHANGED <<wtask, wtmp, wres, fresult>>
                 [] step = "return_none" ->
                      /\ wtmp' = [wtmp EXCEPT ![w] = error_count]
                      /\ wpc' = [wpc EXCEPT ![w] = "store_error"]
                      /\ UNCHANGED <<wtask, attempt, wres, fresult>>
                 [] step = "return_response" /\ result.success ->
                      /\ wres' = [wres EXCEPT ![w] = result]
                      /\ wtmp' = [wtmp EXCEPT ![w] = found_count]
                      /\ wpc' = [wpc EXCEPT ![w] = "store_found"]
                      /\ UNCHANGED <<wtask, attempt, fresult>>
                 [] step = "return_response" /\ ~result.success ->
                      /\ fresult' = fresult @@ (i :> result)
                      /\ Release(w)
    /\ UNCHANGED <<scan_results, discovery_vars, fuzzer_vars, side_vars>>
    /\ UNCHANGED <<config, max_retries, base_url, paths, stub, mainpc, submitted,
                   queue, yielded, results, completed, found_count, error_count,
                   returned, interrupted, sent>>

\* the store of  found_count += 1 , then intelligent_save and return result
StoreFound(w) ==
    /\ wpc[w] = "store_found"
    /\ found_count' = wtmp[w] + 1
    /\ \E save_success \in BOOLEAN :
          fresult' = fresult @@ (wtask[w] :> WithSaved(wres[w], save_success))
    /\ Release(w)
    /\ UNCHANGED <<scan_results, discovery_vars, fuzzer_vars, side_vars>>
    /\ UNCHANGED <<config, max_retries, base_url, paths, stub, mainpc, submitted,
                   queue, yielded, results, completed, error_count, returned,
                   interrupted, sent, history, last>>

\* the store of  error_count += 1 , then return the error dict
StoreError(w) ==
    /\ wpc[w] = "store_error"
    /\ error_count' = wtmp[w] + 1
    /\ fresult' = fresult @@ (wtask[w] :> ErrorDict(base_url, paths[wtask[w]]))
    /\ Release(w)
    /\ UNCHANGED <<scan_results, discovery_vars, fuzzer_vars, side_vars>>
    /\ UNCHANGED <<config, max_retries, base_url, paths, stub, mainpc, submitted,
                   queue, yielded, results, completed, found_count, returned,
                   interrupted, sent, history, last>>

\* the list scan_paths returned is the plain list object results; nothing
\* marks it final: an append to it by its holder succeeds like any other
RecordAfterReturn ==
    /\ mainpc = "returned"
    /\ Len(scan_results) < Len(returned.value) + MaxLateRecords
    /\ \E i \in Idx :
          scan_results' = Append(scan_results, ErrorDict(base_url, paths[i]))
    /\ UNCHANGED <<discovery_vars, fuzzer_vars, side_vars>>
    /\ UNCHANGED <<config, max_retries, base_url, paths, stub, mainpc, submitted,
                   queue, fresult, yielded, results, completed, found_count,
                   error_count, returned, interrupted, wpc, wtask, attempt, wtmp,
                   wres, sent, history, last>>

Next ==
    \/ Submit
    \/ Collect
    \/ Return
    \/ RecordAfterReturn
    \/ Signal
    \/ Exit
    \/ \E w \in Workers : TakeWork(w)
    \/ \E w \in Workers : Send(w)
    \/ \E w \in Workers : Attempt(w)
    \/ \E w \in Workers : StoreFound(w)
    \/ \E w \in Workers : StoreError(w)

Spec == Init /\ [][Next]_vars

\* a scanner whose config.yaml sets scanning.max_retries to any valid value
\* and that scans one path with one worker
InitConfigured ==
    /\ config \in [max_workers : {1},
                   max_retries : MIN_CONFIG_MAX_RETRIES..MAX_CONFIG_MAX_RETRIES,
                   timeout : {DEFAULT_CONFIG_TIMEOUT}]
    /\ max_retries = DEFAULT_MAX_RETRIES
    /\ base_url = "https://example.test"
    /\ paths = OnePath
    /\ stub = AnyStub(Range(OnePath))
    /\ mainpc = "submit"
    /\ submitted = 0
    /\ queue = <<>>
    /\ fresult = NoDict
    /\ yielded = {}
    /\ results = <<>>
    /\ completed = 0
    /\ found_count = 0
    /\ error_count = 0
    /\ returned = [done |-> FALSE, value |-> <<>>]
    /\ interrupted = FALSE
    /\ wpc = [w \in 1..MaxWorkers |-> "idle"]
    /\ wtask = [w \in 1..MaxWorkers |-> 0]
    /\ attempt = [w \in 1..MaxWorkers |-> 0]
    /\ wtmp = [w \in 1..MaxWorkers |-> 0]
    /\ wres = [w \in 1..MaxWorkers |-> NoDict]
    /\ sent = [i \in Idx |-> 0]
    /\ history = [i \in Idx |-> <<>>]
    /\ last = [i \in Idx |-> "none"]
    /\ scan_results = <<>>
    /\ DiscoveryOver
    /\ FuzzerIdle
    /\ SideIdle

ConfiguredSpec == InitConfigured /\ [][Next]_vars

\* scan_paths has been entered: nothing submitted, the pool threads idle
ScanEntered ==
    /\ mainpc = "submit"
    /\ submitted = 0
    /\ queue = <<>>
    /\ fresult = NoDict
    /\ yielded = {}
    /\ results = <<>>
    /\ completed = 0
    /\ found_count = 0
    /\ error_count = 0
    /\ returned = [done |-> FALSE, value |-> <<>>]
    /\ interrupted = FALSE
    /\ wpc = [w \in 1..MaxWorkers |-> "idle"]
    /\ wtask = [w \in 1..MaxWorkers |-> 0]
    /\ attempt = [w \in 1..MaxWorkers |-> 0]
    /\ wtmp = [w \in 1..MaxWorkers |-> 0]
    /\ wres = [w \in 1..MaxWorkers |-> NoDict]
    /\ sent = [i \in Idx |-> 0]
    /\ history = [i \in Idx |-> <<>>]
    /\ last = [i \in Idx |-> "none"]
    /\ scan_results = <<>>
    /\ DiscoveryOver
    /\ FuzzerIdle
    /\ SideIdle

\* a scan of NumPaths paths one of which never answers in time
InitCompletion ==
    /\ config \in [max_workers : 1..MaxWorkers, max_retries : {DEFAULT_CONFIG_MAX_RETRIES},
                   timeout : {DEFAULT_CONFIG_TIMEOUT}]
    /\ max_retries = DEFAULT_MAX_RETRIES
    /\ base_url = "https://example.test"
    /\ paths = SubSeq(PathCatalog, 1, NumPaths)
    /\ stub = TimeoutStub(Range(paths))
    /\ ScanEntered

\* the steps the threads of the process take by themselves: every step but
\* the arrival of a signal
Progress ==
    \/ Submit
    \/ Collect
    \/ Return
    \/ Exit
    \/ \E w \in Workers : TakeWork(w)
    \/ \E w \in Workers : Send(w)
    \/ \E w \in Workers : Attempt(w)
    \/ \E w \in Workers : StoreFound(w)
    \/ \E w \in Workers : StoreError(w)

\* the threads are scheduled, and every session.request ends with a response
\* or, after timeout seconds, with an exception
FairSpec == InitCompletion /\ [][Next]_vars /\ WF_vars(Progress)

-----------------------------------------------------------------------------
(* ScannerEngine: path discovery.  Paths are tuples of characters; a Python *)
(* set is a duplicate-free tuple, its iteration order; a list is a tuple.   *)

\* the list suspicious_patterns of _is_suspicious_path
SUSPICIOUS_PATTERNS ==
    { <<".", ".">>, <<".", ".", ".">>, <<"/", "/", "/", "/">>, <<".", "b", "a", "k">>,
      <<".", "o", "l", "d">>, <<".", "t", "x", "t">>, <<".", "x", "m", "l">>,
      <<".", "j", "s", "o", "n">>, <<".", "j", "s", ".", "m", "a", "p">>,
      <<".", "c", "s", "s", ".", "m", "a", "p">>, <<".", "e", "n", "v">>,
      <<"c", "o", "n", "f", "i", "g", ".", "j", "s", "o", "n">>,
      <<"p", "a", "c", "k", "a", "g", "e", ".", "j", "s", "o", "n">>,
      <<"c", "o", "m", "p", "o", "s", "e", "r", ".", "j", "s", "o", "n">>, <<"w", "p", "-">>,
      <<"l", "a", "r", "a", "v", "e", "l", "/">>, <<"/", "/">>, <<".", ".", ".", ".">>,
      <<".", "s", "q", "l">>, <<".", "z", "i", "p">>, <<".", "t", "a", "r">>, <<".", "g", "z">>,
      <<".", "l", "o", "g">>, <<".", "t", "m", "p">>, <<".", "t", "e", "m", "p">>,
      <<".", "s", "w", "p">>, <<".", "s", "w", "o">> }

\* variant: a pattern counts only at the end of the path
IsSuspiciousPathSuffix(path) ==
    \E pattern \in SUSPICIOUS_PATTERNS :
        /\ Len(pattern) <= Len(path)
        /\ SubSeq(path, Len(path) - Len(pattern) + 1, Len(path)) = pattern

\* _is_suspicious_path: any(pattern in path for pattern in suspicious_patterns)
IsSuspiciousPath(path) ==
    \E pattern \in SUSPICIOUS_PATTERNS : Contains(path, pattern)

\* [p for p in ps if not self._is_suspicious_path(p)]
FilterNatural(ps) == SelectSeq(ps, LAMBDA p : ~IsSuspiciousPath(p))

\* the list get_common_paths returns, in the groups of its comments; the
\* phase treats every path by itself, a behaviour handles one group
COMMON_PATH_GROUPS ==
    << << <<"/", "a", "p", "i">>, <<"/", "a", "p", "i", "/">>, <<"/", "a", "p", "i", "/", "v", "1">>,
         <<"/", "a", "p", "i", "/", "v", "1", "/">>, <<"/", "a", "p", "i", "/", "v", "2">>,
         <<"/", "a", "p", "i", "/", "v", "2", "/">>, <<"/", "a", "p", "i", "/", "v", "3">>,
         <<"/", "a", "p", "i", "/", "v", "3", "/">>, <<"/", "g", "r", "a", "p", "h", "q", "l">>,
         <<"/", "g", "r", "a", "p", "h", "q", "l", "/">>, <<"/", "r", "e", "s", "t">>,
         <<"/", "r", "e", "s", "t", "/">>, <<"/", "j", "s", "o", "n">>,
         <<"/", "j", "s", "o", "n", "/">>, <<"/", "v", "1">>, <<"/", "v", "1", "/">>,
         <<"/", "v", "2">>, <<"/", "v", "2", "/">>, <<"/", "v", "3">>, <<"/", "v", "3", "/">> >>,
       << <<"/", "a", "u", "t", "h">>, <<"/", "a", "u", "t", "h", "/">>,
         <<"/", "l", "o", "g", "i", "n">>, <<"/", "l", "o", "g", "i", "n", "/">>,
         <<"/", "r", "e", "g", "i", "s", "t", "e", "r">>,
         <<"/", "r", "e", "g", "i", "s", "t", "e", "r", "/">>,
         <<"/", "s", "i", "g", "n", "i", "n">>, <<"/", "s", "i", "g", "n", "i", "n", "/">>,
         <<"/", "s", "i", "g", "n", "u", "p">>, <<"/", "s", "i", "g", "n", "u", "p", "/">>,
         <<"/", "o", "a", "u", "t", "h">>, <<"/", "o", "a", "u", "t", "h", "/">>,
         <<"/", "t", "o", "k", "e", "n">>, <<"/", "t", "o", "k", "e", "n", "/">>,
         <<"/", "r", "e", "f", "r", "e", "s", "h">>,
         <<"/", "r", "e", "f", "r", "e", "s", "h", "/">>, <<"/", "l", "o", "g", "o", "u", "t">>,
         <<"/", "l", "o", "g", "o", "u", "t", "/">> >>,
       << <<"/", "a", "p", "p">>, <<"/", "a", "p", "p", "/">>,
         <<"/", "d", "a", "s", "h", "b", "o", "a", "r", "d">>,
         <<"/", "d", "a", "s", "h", "b", "o", "a", "r", "d", "/">>,
         <<"/", "a", "d", "m", "i", "n">>, <<"/", "a", "d", "m", "i", "n", "/">>,
         <<"/", "p", "r", "o", "f", "i", "l", "e">>,
         <<"/", "p", "r", "o", "f", "i", "l", "e", "/">>,
         <<"/", "s", "e", "t", "t", "i", "n", "g", "s">>,
         <<"/", "s", "e", "t", "t", "i", "n", "g", "s", "/">>,
         <<"/", "a", "c", "c", "o", "u", "n", "t">>,
         <<"/", "a", "c", "c", "o", "u", "n", "t", "/">>, <<"/", "u", "s", "e", "r">>,
         <<"/", "u", "s", "e", "r", "/">>, <<"/", "u", "s", "e", "r", "s">>,
         <<"/", "u", "s", "e", "r", "s", "/">>, <<"/", "m", "e">>, <<"/", "m", "e", "/">>,
         <<"/", "h", "o", "m", "e">>, <<"/", "h", "o", "m", "e", "/">> >>,
       << <<"/", "s", "t", "a", "t", "i", "c">>, <<"/", "s", "t", "a", "t", "i", "c", "/">>,
         <<"/", "a", "s", "s", "e", "t", "s">>, <<"/", "a", "s", "s", "e", "t", "s", "/">>,
         <<"/", "p", "u", "b", "l", "i", "c">>, <<"/", "p", "u", "b", "l", "i", "c", "/">>,
         <<"/", "m", "e", "d", "i", "a">>, <<"/", "m", "e", "d", "i", "a", "/">>,
         <<"/", "u", "p", "l", "o", "a", "d", "s">>,
         <<"/", "u", "p", "l", "o", "a", "d", "s", "/">>, <<"/", "f", "i", "l", "e", "s">>,
         <<"/", "f", "i", "l", "e", "s", "/">>, <<"/", "i", "m", "a", "g", "e", "s">>,
         <<"/", "i", "m", "a", "g", "e", "s", "/">>, <<"/", "i", "m", "g">>,
         <<"/", "i", "m", "g", "/">>, <<"/", "c", "s", "s">>, <<"/", "c", "s", "s", "/">>,
         <<"/", "j", "s">>, <<"/", "j", "s", "/">>, <<"/", "f", "o", "n", "t", "s">>,
         <<"/", "f", "o", "n", "t", "s", "/">>, <<"/", "i", "c", "o", "n", "s">>,
         <<"/", "i", "c", "o", "n", "s", "/">>, <<"/", "s", "v", "g">>, <<"/", "s", "v", "g", "/">> >>,
       << <<"/", "d", "o", "c", "s">>, <<"/", "d", "o", "c", "s", "/">>,
         <<"/", "d", "o", "c", "u", "m", "e", "n", "t", "a", "t", "i", "o", "n">>,
         <<"/", "d", "o", "c", "u", "m", "e", "n", "t", "a", "t", "i", "o", "n", "/">>,
         <<"/", "a", "p", "i", "-", "d", "o", "c", "s">>,
         <<"/", "a", "p", "i", "-", "d", "o", "c", "s", "/">>,
         <<"/", "s", "w", "a", "g", "g", "e", "r">>,
         <<"/", "s", "w", "a", "g", "g", "e", "r", "/">>,
         <<"/", "o", "p", "e", "n", "a", "p", "i">>, <<"/", "o", "p", "e", "n", "a", "p", "i", "/">> >>,
       << <<"/", "r", "o", "b", "o", "t", "s", ".", "t", "x", "t">>,
         <<"/", "s", "i", "t", "e", "m", "a", "p", ".", "x", "m", "l">>,
         <<"/", "f", "a", "v", "i", "c", "o", "n", ".", "i", "c", "o">>,
         <<"/", "h", "u", "m", "a", "n", "s", ".", "t", "x", "t">>,
         <<"/", "s", "e", "c", "u", "r", "i", "t", "y", ".", "t", "x", "t">> >>,
       << <<"/", "h", "e", "a", "l", "t", "h">>, <<"/", "h", "e", "a", "l", "t", "h", "/">>,
         <<"/", "s", "t", "a", "t", "u", "s">>, <<"/", "s", "t", "a", "t", "u", "s", "/">>,
         <<"/", "p", "i", "n", "g">>, <<"/", "p", "i", "n", "g", "/">>,
         <<"/", "r", "e", "a", "d", "y">>, <<"/", "r", "e", "a", "d", "y", "/">>,
         <<"/", "l", "i", "v", "e">>, <<"/", "l", "i", "v", "e", "/">>,
         <<"/", "h", "e", "a", "l", "t", "h", "c", "h", "e", "c", "k">>,
         <<"/", "h", "e", "a", "l", "t", "h", "c", "h", "e", "c", "k", "/">> >>,
       << <<"/", "_", "n", "e", "x", "t">>, <<"/", "_", "n", "e", "x", "t", "/">>,
         <<"/", "_", "n", "e", "x", "t", "/", "d", "a", "t", "a">>,
         <<"/", "_", "n", "e", "x", "t", "/", "d", "a", "t", "a", "/">>,
         <<"/", "_", "_", "n", "u", "x", "t">>, <<"/", "_", "_", "n", "u", "x", "t", "/">>,
         <<"/", "_", "n", "u", "x", "t">>, <<"/", "_", "n", "u", "x", "t", "/">>,
         <<"/", "_", "a", "s", "t", "r", "o">>, <<"/", "_", "a", "s", "t", "r", "o", "/">>,
         <<"/", "b", "u", "i", "l", "d">>, <<"/", "b", "u", "i", "l", "d", "/">>,
         <<"/", "d", "i", "s", "t">>, <<"/", "d", "i", "s", "t", "/">> >>,
       << <<"/", "s", "e", "a", "r", "c", "h">>, <<"/", "s", "e", "a", "r", "c", "h", "/">>,
         <<"/", "q", "u", "e", "r", "y">>, <<"/", "q", "u", "e", "r", "y", "/">>,
         <<"/", "d", "a", "t", "a">>, <<"/", "d", "a", "t", "a", "/">>, <<"/", "l", "i", "s", "t">>,
         <<"/", "l", "i", "s", "t", "/">>, <<"/", "i", "t", "e", "m", "s">>,
         <<"/", "i", "t", "e", "m", "s", "/">>, <<"/", "p", "r", "o", "d", "u", "c", "t", "s">>,
         <<"/", "p", "r", "o", "d", "u", "c", "t", "s", "/">>,
         <<"/", "c", "a", "t", "a", "l", "o", "g">>,
         <<"/", "c", "a", "t", "a", "l", "o", "g", "/">>, <<"/", "s", "t", "o", "r", "e">>,
         <<"/", "s", "t", "o", "r", "e", "/">>, <<"/", "s", "h", "o", "p">>,
         <<"/", "s", "h", "o", "p", "/">> >>,
       << <<"/", "c", "o", "n", "f", "i", "g">>, <<"/", "c", "o", "n", "f", "i", "g", "/">>,
         <<"/", "s", "e", "t", "t", "i", "n", "g", "s">>,
         <<"/", "s", "e", "t", "t", "i", "n", "g", "s", "/">>,
         <<"/", "c", "o", "n", "f", "i", "g", "u", "r", "a", "t", "i", "o", "n">>,
         <<"/", "c", "o", "n", "f", "i", "g", "u", "r", "a", "t", "i", "o", "n", "/">>,
         <<"/", "o", "p", "t", "i", "o", "n", "s">>, <<"/", "o", "p", "t", "i", "o", "n", "s", "/">> >>,
       << <<"/", "b", "l", "o", "g">>, <<"/", "b", "l", "o", "g", "/">>,
         <<"/", "p", "o", "s", "t", "s">>, <<"/", "p", "o", "s", "t", "s", "/">>,
         <<"/", "a", "r", "t", "i", "c", "l", "e", "s">>,
         <<"/", "a", "r", "t", "i", "c", "l", "e", "s", "/">>, <<"/", "n", "e", "w", "s">>,
         <<"/", "n", "e", "w", "s", "/">>, <<"/", "u", "p", "d", "a", "t", "e", "s">>,
         <<"/", "u", "p", "d", "a", "t", "e", "s", "/">>, <<"/", "f", "e", "e", "d">>,
         <<"/", "f", "e", "e", "d", "/">> >>,
       << <<"/", "c", "o", "n", "t", "a", "c", "t">>,
         <<"/", "c", "o", "n", "t", "a", "c", "t", "/">>, <<"/", "a", "b", "o", "u", "t">>,
         <<"/", "a", "b", "o", "u", "t", "/">>, <<"/", "s", "u", "p", "p", "o", "r", "t">>,
         <<"/", "s", "u", "p", "p", "o", "r", "t", "/">>, <<"/", "h", "e", "l", "p">>,
         <<"/", "h", "e", "l", "p", "/">>, <<"/", "f", "a", "q">>, <<"/", "f", "a", "q", "/">>,
         <<"/", "t", "e", "r", "m", "s">>, <<"/", "t", "e", "r", "m", "s", "/">>,
         <<"/", "p", "r", "i", "v", "a", "c", "y">>, <<"/", "p", "r", "i", "v", "a", "c", "y", "/">> >> >>

\* the suffixes of the list variations of generate_natural_variations; the
\* sixth and the seventh are followed by the digits of a random number
VARIATION_SUFFIXES ==
    << <<>>, <<"/">>, <<"?", "v", "=", "1">>, <<"?", "v", "e", "r", "s", "i", "o", "n", "=", "1">>,
       <<"?", "f", "o", "r", "m", "a", "t", "=", "j", "s", "o", "n">>,
       <<"?", "c", "a", "l", "l", "b", "a", "c", "k", "=", "j", "s", "o", "n", "p">>,
       <<"?", "_", "=">>, <<"?", "c", "a", "c", "h", "e", "=", "t", "r", "u", "e">>,
       <<"?", "p", "r", "e", "v", "i", "e", "w", "=", "1">>,
       <<"?", "d", "e", "b", "u", "g", "=", "t", "r", "u", "e">>,
       <<"?", "a", "p", "i", "_", "k", "e", "y", "=", "t", "e", "s", "t">>,
       <<"?", "t", "o", "k", "e", "n", "=", "a", "b", "c", "1", "2", "3">>,
       <<"?", "a", "u", "t", "h", "=", "t", "r", "u", "e">>,
       <<"?", "s", "o", "u", "r", "c", "e", "=", "w", "e", "b">>,
       <<"?", "p", "l", "a", "t", "f", "o", "r", "m", "=", "d", "e", "s", "k", "t", "o", "p">>,
       <<"?", "l", "a", "n", "g", "=", "e", "n">>,
       <<"?", "l", "o", "c", "a", "l", "e", "=", "e", "n", "_", "U", "S">> >>

\* str(random.randint(1000, 9999)) and str(random.randint(1000000000,
\* 9999999999)): the draws the model looks at
RandomSamples ==
    { << <<"1", "0", "0", "0">>,
         <<"1", "0", "0", "0", "0", "0", "0", "0", "0", "0">> >>,
      << <<"9", "9", "9", "9">>,
         <<"9", "9", "9", "9", "9", "9", "9", "9", "9", "9">> >> }

\* default_paths of GitHubResourceManager.load_common_paths: what it returns
\* for the common_paths file download_resources writes (plain text, not JSON)
GITHUB_DEFAULT_PATHS ==
    << <<"/", "a", "p", "i", "/">>, <<"/", "a", "d", "m", "i", "n", "/">>,
       <<"/", "s", "t", "a", "t", "i", "c", "/">>, <<"/", "a", "s", "s", "e", "t", "s", "/">>,
       <<"/", "c", "o", "n", "f", "i", "g", ".", "j", "s", "o", "n">>, <<"/", ".", "e", "n", "v">>,
       <<"/", "p", "a", "c", "k", "a", "g", "e", ".", "j", "s", "o", "n">>,
       <<"/", "c", "o", "m", "p", "o", "s", "e", "r", ".", "j", "s", "o", "n">> >>

\* relative paths intelligent_crawler may return: cleaned, with a leading "/"
CRAWLED_PATHS ==
    << <<"/", "a", "b", "o", "u", "t">>, <<"/", "s", "h", "o", "p", "/", "c", "a", "r", "t">>,
       <<"/", "w", "p", "-", "l", "o", "g", "i", "n", ".", "p", "h", "p">>,
       <<"/", "b", "a", "c", "k", "u", "p", ".", "z", "i", "p">> >>

\* self.intelligent_crawler: no discovery modules, a crawl that raises, a
\* crawl that returns paths
CrawlerCases ==
    { [kind |-> "absent", paths |-> <<>>],
      [kind |-> "raises", paths |-> <<>>],
      [kind |-> "ok", paths |-> CRAWLED_PATHS] }

\* set.update(xs): the elements of xs the set does not hold yet, each once
SetUpdate(s, xs) ==
    LET held == Range(s)
        fresh == {k \in 1..Len(xs) : /\ xs[k] \notin held
                                     /\ \A j \in 1..(k - 1) : xs[j] # xs[k]}
        numbered == [k \in 1..Len(xs) |-> <<k, xs[k]>>]
        kept == SelectSeq(numbered, LAMBDA e : e[1] \in fresh)
    IN  s \o [k \in 1..Len(kept) |-> kept[k][2]]

\* the list variations for one path; r: the digits of the two random numbers
Variations(path, r) ==
    [k \in 1..Len(VARIATION_SUFFIXES) |->
        path \o VARIATION_SUFFIXES[k]
             \o (IF k = 6 THEN r[1] ELSE IF k = 7 THEN r[2] ELSE <<>>)]

\* generate_natural_variations(base_paths): for every base path that is not
\* suspicious, natural_paths.add(path) and natural_paths.update(variations);
\* the result is list(natural_paths)
GenerateNaturalVariations(bases, r) ==
    LET natural == FilterNatural(bases)
        n == Len(VARIATION_SUFFIXES) + 1
        added == [k \in 1..(Len(natural) * n) |->
                    LET path == natural[((k - 1) \div n) + 1]
                        v == (k - 1) % n
                    IN  IF v = 0 THEN path ELSE Variations(path, r)[v]]
    IN  SetUpdate(<<>>, added)

\* the set all_paths of advanced_discovery_phase before the final filter
AllPaths(bases, r, crawl, download) ==
    LET m1 == SetUpdate(<<>>, bases)
        m2 == SetUpdate(m1, GenerateNaturalVariations(bases, r))
        m3 == IF crawl.kind = "ok"
              THEN SetUpdate(m2, FilterNatural(crawl.paths)) ELSE m2
        m4 == IF download
              THEN SetUpdate(m3, FilterNatural(GITHUB_DEFAULT_PATHS)) ELSE m3
    IN  m4

\* scan_paths has not been entered
ScanNotEntered ==
    /\ config = [max_workers |-> 1, max_retries |-> DEFAULT_CONFIG_MAX_RETRIES,
                 timeout |-> DEFAULT_CONFIG_TIMEOUT]
    /\ max_retries = DEFAULT_MAX_RETRIES
    /\ base_url = "https://example.test"
    /\ paths = <<>>
    /\ stub = NoDict
    /\ mainpc = "discovery"
    /\ submitted = 0
    /\ queue = <<>>
    /\ fresult = NoDict
    /\ yielded = {}
    /\ results = <<>>
    /\ completed = 0
    /\ found_count = 0
    /\ error_count = 0
    /\ returned = [done |-> FALSE, value |-> <<>>]
    /\ interrupted = FALSE
    /\ wpc = [w \in 1..MaxWorkers |-> "idle"]
    /\ wtask = [w \in 1..MaxWorkers |-> 0]
    /\ attempt = [w \in 1..MaxWorkers |-> 0]
    /\ wtmp = [w \in 1..MaxWorkers |-> 0]
    /\ wres = [w \in 1..MaxWorkers |-> NoDict]
    /\ sent = <<>>
    /\ history = <<>>
    /\ last = <<>>
    /\ scan_results = <<>>

scan_vars == <<config, max_retries, base_url, paths, stub, mainpc, submitted,
               queue, fresult, yielded, results, completed, found_count,
               error_count, returned, interrupted, wpc, wtask, attempt, wtmp,
               wres, sent, history, last, scan_results>>

\* start_scan is about to call advanced_discovery_phase, with any setting of
\* stealth_mode and auto_download and any crawler
DiscoveryInit ==
    /\ stealth_mode \in BOOLEAN
    /\ auto_download \in BOOLEAN
    /\ crawler \in CrawlerCases
    /\ randoms = <<>>
    /\ dpc = "start"
    /\ base_paths = <<>>
    /\ all_paths = <<>>
    /\ final_paths = <<>>
    /\ FuzzerIdle
    /\ SideIdle
    /\ ScanNotEntered

\* advanced_discovery_phase: base paths, natural variations, crawled paths,
\* GitHub paths, then the final filter
AdvancedDiscoveryPhase ==
    /\ dpc = "start"
    /\ \E g \in 1..Len(COMMON_PATH_GROUPS) : base_paths' = COMMON_PATH_GROUPS[g]
    /\ \E r \in RandomSamples : randoms' = r
    /\ all_paths' = AllPaths(base_paths', randoms', crawler, auto_download)
    /\ final_paths' = FilterNatural(all_paths')
    /\ dpc' = "done"
    /\ UNCHANGED <<stealth_mode, auto_download, crawler, fuzzer_vars, side_vars, scan_vars>>

DiscoveryNext == AdvancedDiscoveryPhase

DiscoverySpec == DiscoveryInit /\ [][DiscoveryNext]_vars

-----------------------------------------------------------------------------
(* QuantumFuzzer: the variations generate_quantum_states derives from one   *)
(* path.  Characters are the printable ASCII characters.                    *)

\* the characters of code 32..95, in order
ASCII_TABLE ==
    <<" ", "!", "\"", "#", "$", "%", "&", "'", "(", ")", "*", "+", ",", "-", ".", "/",
       "0", "1", "2", "3", "4", "5", "6", "7", "8", "9", ":", ";", "<", "=", ">", "?",
       "@", "A", "B", "C", "D", "E", "F", "G", "H", "I", "J", "K", "L", "M", "N", "O",
       "P", "Q", "R", "S", "T", "U", "V", "W", "X", "Y", "Z", "[", "\\", "]", "^", "_">>

\* the characters of code 97..126, in order (code 96 occurs in no path)
ASCII_TABLE_97 ==
    <<"a", "b", "c", "d", "e", "f", "g", "h", "i", "j", "k", "l", "m", "n", "o", "p",
       "q", "r", "s", "t", "u", "v", "w", "x", "y", "z", "{", "|", "}", "~">>

\* ord(c)
Ord(c) ==
    IF \E k \in 1..Len(ASCII_TABLE) : ASCII_TABLE[k] = c
    THEN 31 + CHOOSE k \in 1..Len(ASCII_TABLE) : ASCII_TABLE[k] = c
    ELSE 96 + CHOOSE k \in 1..Len(ASCII_TABLE_97) : ASCII_TABLE_97[k] = c

HEX_LOWER == <<"0", "1", "2", "3", "4", "5", "6", "7", "8", "9", "a", "b", "c", "d", "e", "f">>

HEX_UPPER == <<"0", "1", "2", "3", "4", "5", "6", "7", "8", "9", "A", "B", "C", "D", "E", "F">>

\* the alphabet of base64.b64encode
BASE64_ALPHABET ==
    <<"A", "B", "C", "D", "E", "F", "G", "H", "I", "J", "K", "L", "M", "N", "O", "P",
       "Q", "R", "S", "T", "U", "V", "W", "X", "Y", "Z", "a", "b", "c", "d", "e", "f",
       "g", "h", "i", "j", "k", "l", "m", "n", "o", "p", "q", "r", "s", "t", "u", "v",
       "w", "x", "y", "z", "0", "1", "2", "3", "4", "5", "6", "7", "8", "9", "+", "/">>

LowerToUpper ==
    [a |-> "A", b |-> "B", c |-> "C", d |-> "D", e |-> "E", f |-> "F",
     g |-> "G", h |-> "H", i |-> "I", j |-> "J", k |-> "K", l |-> "L",
     m |-> "M", n |-> "N", o |-> "O", p |-> "P", q |-> "Q", r |-> "R",
     s |-> "S", t |-> "T", u |-> "U", v |-> "V", w |-> "W", x |-> "X",
     y |-> "Y", z |-> "Z"]

\* str.upper()
Upper(s) ==
    [i \in 1..Len(s) |-> IF s[i] \in DOMAIN LowerToUpper THEN LowerToUpper[s[i]] ELSE s[i]]

IsLetter(c) == c \in DOMAIN LowerToUpper \/ c \in DOMAIN UpperToLower

\* str.title(): a letter after a non-letter in upper case, the others in lower
Title(s) ==
    [i \in 1..Len(s) |->
        IF i = 1 \/ ~IsLetter(s[i - 1]) THEN Upper(<<s[i]>>)[1] ELSE Lower(<<s[i]>>)[1]]

\* ''.join(pieces), by halves
RECURSIVE JoinRange(_, _, _)
JoinRange(pieces, lo, hi) ==
    IF lo > hi THEN <<>>
    ELSE IF lo = hi THEN pieces[lo]
    ELSE LET mid == (lo + hi) \div 2
         IN  JoinRange(pieces, lo, mid) \o JoinRange(pieces, mid + 1, hi)

\* sep.join(parts)
Join(parts, sep) ==
    JoinRange([k \in 1..Len(parts) |-> IF k = 1 THEN parts[k] ELSE sep \o parts[k]],
              1, Len(parts))

\* s.split(c) for a one-character separator c
Split(s, c) ==
    LET at == SelectSeq([k \in 1..Len(s) |-> k], LAMBDA k : s[k] = c)
        from(k) == IF k = 1 THEN 1 ELSE at[k - 1] + 1
        to(k) == IF k = Len(at) + 1 THEN Len(s) ELSE at[k] - 1
    IN  [k \in 1..(Len(at) + 1) |-> SubSeq(s, from(k), to(k))]

\* s.strip(c)
Strip(s, c) ==
    LET keep == {k \in 1..Len(s) : s[k] # c}
    IN  IF keep = {} THEN <<>>
        ELSE SubSeq(s, CHOOSE k \in keep : \A j \in keep : k <= j,
                       CHOOSE k \in keep : \A j \in keep : j <= k)

\* list.insert(i, x) for the 0-based index i
ListInsert(xs, i, x) == SubSeq(xs, 1, i) \o <<x>> \o SubSeq(xs, i + 1, Len(xs))

\* str(n) for 0 <= n < 1000
Decimal(n) ==
    LET d(k) == HEX_LOWER[k + 1]
    IN  IF n < 10 THEN <<d(n)>>
        ELSE IF n < 100 THEN <<d(n \div 10), d(n % 10)>>
        ELSE <<d(n \div 100), d((n \div 10) % 10), d(n % 10)>>

\* urllib.parse.quote(s): letters, digits, '_.-~' and '/' are kept, every
\* other character becomes %XX
QUOTE_SAFE == {"_", ".", "-", "~", "/"}

Quote(s) ==
    LET one(c) == IF IsLetter(c) \/ (Ord(c) >= 48 /\ Ord(c) <= 57) \/ c \in QUOTE_SAFE
                  THEN <<c>>
                  ELSE <<"%", HEX_UPPER[(Ord(c) \div 16) + 1], HEX_UPPER[(Ord(c) % 16) + 1]>>
    IN  JoinRange([k \in 1..Len(s) |-> one(s[k])], 1, Len(s))

\* base64.b64encode(s.encode()).decode()
Base64(s) ==
    LET n == Len(s)
        byte(k) == IF k <= n THEN Ord(s[k]) ELSE 0
        group(g) == byte(3 * g + 1) * 65536 + byte(3 * g + 2) * 256 + byte(3 * g + 3)
        sextet(g, j) == IF j = 0 THEN group(g) \div 262144
                        ELSE IF j = 1 THEN (group(g) \div 4096) % 64
                        ELSE IF j = 2 THEN (group(g) \div 64) % 64
                        ELSE group(g) % 64
    IN  [k \in 1..(4 * ((n + 2) \div 3)) |->
            LET g == (k - 1) \div 4
                j == (k - 1) % 4
            IN  IF (j = 2 /\ 3 * g + 2 > n) \/ (j = 3 /\ 3 * g + 3 > n)
                THEN "="
                ELSE BASE64_ALPHABET[sextet(g, j) + 1]]

\* s.encode().hex()
HexEncode(s) ==
    [k \in 1..(2 * Len(s)) |->
        LET o == Ord(s[(k + 1) \div 2])
        IN  IF k % 2 = 1 THEN HEX_LOWER[(o \div 16) + 1] ELSE HEX_LOWER[(o % 16) + 1]]

\* ''.join(f'%u{ord(c):04x}' for c in s)
UnicodeEncode(s) ==
    LET one(c) == <<"%", "u", "0", "0", HEX_LOWER[(Ord(c) \div 16) + 1],
                   HEX_LOWER[(Ord(c) % 16) + 1]>>
    IN  JoinRange([k \in 1..Len(s) |-> one(s[k])], 1, Len(s))

\* ''.join(f'&#{ord(c)};' for c in s)
HtmlEntityEncode(s) ==
    JoinRange([k \in 1..Len(s) |-> <<"&", "#">> \o Decimal(Ord(s[k])) \o <<";">>], 1, Len(s))

\* self.encoding_methods
ENCODING_METHODS == <<"url", "base64", "hex", "unicode", "double_url", "html_entity">>

\* apply_encoding
ApplyEncoding(path, encoding) ==
    CASE encoding = "url" -> Quote(path)
      [] encoding = "base64" -> Base64(path)
      [] encoding = "hex" -> HexEncode(path)
      [] encoding = "unicode" -> UnicodeEncode(path)
      [] encoding = "double_url" -> Quote(Quote(path))
      [] encoding = "html_entity" -> HtmlEntityEncode(path)
      [] OTHER -> path

\* generate_all_encodings: each encoding that changes the path, followed by
\* the same encoding applied again except for double_url
GenerateAllEncodings(path) ==
    LET of(encoding) ==
            LET encoded == ApplyEncoding(path, encoding)
                double_encoded == ApplyEncoding(encoded, encoding)
            IN  IF encoded # <<>> /\ encoded # path
                THEN <<encoded>> \o (IF encoding # "double_url" /\ double_encoded # <<>>
                                     THEN <<double_encoded>> ELSE <<>>)
                ELSE <<>>
    IN  JoinRange([k \in 1..Len(ENCODING_METHODS) |-> of(ENCODING_METHODS[k])],
                  1, Len(ENCODING_METHODS))

\* self.special_chars
SPECIAL_CHARS ==
    << <<".", ".", "/">>,
       <<".", "/">>,
       <<".", ".", ".", "/">>,
       <<"/", ".", "/">>,
       <<"/", "/">>,
       <<"/", ".", ".", "/">>,
       <<"\\", ".", ".", "\\">>,
       <<"\\", "\\", ".", "\\", "\\">> >>

\* generate_traversal_variations: the traversal appended, prepended and
\* inserted, stripped of '/', between the parts of the path
GenerateTraversalVariations(path) ==
    LET parts == Split(path, "/")
        inserted(t) == IF "/" \in Range(path)
                       THEN {Join(ListInsert(parts, i, Strip(t, "/")), <<"/">>) :
                                i \in 1..(Len(parts) - 1)}
                       ELSE {}
    IN  UNION {{path \o t, t \o path} \cup inserted(t) : t \in Range(SPECIAL_CHARS)}

\* random_case: upper case where random.random() > 0.5, the draws given by mask
RandomCase(text, mask) ==
    [i \in 1..Len(text) |-> IF mask[i] THEN Upper(<<text[i]>>)[1] ELSE Lower(<<text[i]>>)[1]]

\* draws of random.random() > 0.5 for a text of n characters
RandomCaseSamples(n) ==
    { [i \in 1..n |-> i % 3 = 0], [i \in 1..n |-> i % 3 = 1], [i \in 1..n |-> TRUE] }

\* generate_case_variations
GenerateCaseVariations(path, mask) ==
    { Upper(path), Lower(path), Title(path), RandomCase(path, mask),
      [i \in 1..Len(path) |-> IF (i - 1) % 2 = 0 THEN Upper(<<path[i]>>)[1]
                                                 ELSE Lower(<<path[i]>>)[1]] }

\* api_indicators of looks_like_api
API_INDICATORS ==
    { <<"/", "a", "p", "i", "/">>,
      <<"/", "v", "1", "/">>,
      <<"/", "v", "2", "/">>,
      <<"/", "v", "3", "/">>,
      <<"/", "r", "e", "s", "t", "/">>,
      <<"/", "g", "r", "a", "p", "h", "q", "l">>,
      <<"/", "j", "s", "o", "n", "/">> }

LooksLikeApi(path) == \E indicator \in API_INDICATORS : Contains(Lower(path), indicator)

\* parameters[:4] and values[:3] of generate_parameter_variations
PARAMETERS == <<<<"i", "d">>, <<"u", "s", "e", "r">>, <<"p", "a", "g", "e">>, <<"l", "i", "m", "i", "t">>>>

VALUES == <<<<"1", "2", "3">>, <<"t", "e", "s", "t">>, <<"a", "d", "m", "i", "n">>>>

\* itertools.combinations(parameters[:3], 2)
PARAM_COMBINATIONS == {<<1, 2>>, <<1, 3>>, <<2, 3>>}

\* generate_parameter_variations
GenerateParameterVariations(path) ==
    LET base_path == Split(path, "?")[1]
        q(param, value) == base_path \o <<"?">> \o param \o <<"=">> \o value
    IN  UNION {{ q(param, value),
                 base_path \o <<"?">> \o param \o <<"[", "]", "=">> \o value,
                 q(param, value) \o <<"&", "t", "e", "s", "t", "=", "1">>,
                 q(param, value) \o <<"&">> \o param \o <<"=">> \o value } :
                    param \in Range(PARAMETERS), value \in Range(VALUES)}
        \cup { q(PARAMETERS[c[1]], VALUES[2]) \o <<"&">> \o PARAMETERS[c[2]]
                   \o <<"=">> \o VALUES[1] : c \in PARAM_COMBINATIONS }

\* extensions of generate_extension_variations
EXTENSIONS ==
    { <<".", "j", "s", "o", "n">>,
      <<".", "j", "s">>,
      <<".", "h", "t", "m", "l">>,
      <<".", "x", "m", "l">>,
      <<".", "t", "x", "t">>,
      <<".", "b", "a", "k">>,
      <<".", "o", "l", "d">>,
      <<".", "s", "q", "l">> }

\* generate_extension_variations
GenerateExtensionVariations(path) ==
    LET no_extension_path == Split(path, ".")[1]
    IN  UNION {{no_extension_path \o ext, path \o ext} : ext \in EXTENSIONS}

\* generate_combined_variations
GenerateCombinedVariations(path) ==
    LET encoded == ApplyEncoding(path, "url")
        traversal == path \o <<".", ".", "/">>
    IN  IF encoded # <<>> /\ traversal # <<>>
        THEN {encoded \o <<".", ".", "/">>, ApplyEncoding(traversal, "url")}
        ELSE {}

\* base paths given to the fuzzer, all with a leading '/'
QuantumBases ==
    { <<"/", "a", "p", "i", "/", "u", "s", "e", "r", "s">>,
      <<"/", "a", "d", "m", "i", "n", "/", "c", "o", "n", "f", "i", "g">>,
      <<"/", "s", "t", "a", "t", "i", "c", "/", "j", "s", "/", "a", "p", "p", ".", "j", "s">>,
      <<"/", "v", "1", "/", "d", "a", "t", "a">>,
      <<"/", "l", "o", "g", "i", "n">>,
      <<"/", "a", "p", "i", "/", "v", "1", "/", "i", "t", "e", "m", "s", "?", "p", "a", "g", "e", "=", "2">>,
      <<"/", "g", "r", "a", "p", "h", "q", "l">>,
      <<"/", "R", "e", "s", "t", "/", "O", "r", "d", "e", "r", "s">>,
      <<"/", "f", "i", "l", "e", "s", "/", "r", "e", "p", "o", "r", "t", ".", "p", "d", "f">>,
      <<"/", "d", "o", "c", "s">> }

\* generate_quantum_states(path) is entered: states = set()
FuzzerInit ==
    /\ qpath \in QuantumBases
    /\ qpc = "original"
    /\ qrandom = <<>>
    /\ states = {}
    /\ DiscoveryOver
    /\ SideIdle
    /\ ScanNotEntered

\* states.add(path)
AddOriginal ==
    /\ qpc = "original"
    /\ states' = states \cup {qpath}
    /\ qpc' = "encodings"
    /\ UNCHANGED <<qpath, qrandom, discovery_vars, side_vars, scan_vars>>

\* states.update(self.generate_all_encodings(path))
AddEncodings ==
    /\ qpc = "encodings"
    /\ states' = states \cup Range(GenerateAllEncodings(qpath))
    /\ qpc' = "traversal"
    /\ UNCHANGED <<qpath, qrandom, discovery_vars, side_vars, scan_vars>>

\* states.update(self.generate_traversal_variations(path))
AddTraversals ==
    /\ qpc = "traversal"
    /\ states' = states \cup GenerateTraversalVariations(qpath)
    /\ qpc' = "case"
    /\ UNCHANGED <<qpath, qrandom, discovery_vars, side_vars, scan_vars>>

\* states.update(self.generate_case_variations(path))
AddCases ==
    /\ qpc = "case"
    /\ \E mask \in RandomCaseSamples(Len(qpath)) : qrandom' = mask
    /\ states' = states \cup GenerateCaseVariations(qpath, qrandom')
    /\ qpc' = "parameter"
    /\ UNCHANGED <<qpath, discovery_vars, side_vars, scan_vars>>

\* if self.looks_like_api(path): states.update(generate_parameter_variations)
AddParameters ==
    /\ qpc = "parameter"
    /\ states' = IF LooksLikeApi(qpath)
                 THEN states \cup GenerateParameterVariations(qpath)
                 ELSE states
    /\ qpc' = "extension"
    /\ UNCHANGED <<qpath, qrandom, discovery_vars, side_vars, scan_vars>>

\* states.update(self.generate_extension_variations(path))
AddExtensions ==
    /\ qpc = "extension"
    /\ states' = states \cup GenerateExtensionVariations(qpath)
    /\ qpc' = "combined"
    /\ UNCHANGED <<qpath, qrandom, discovery_vars, side_vars, scan_vars>>

\* states.update(self.generate_combined_variations(path)); return list(states)
AddCombined ==
    /\ qpc = "combined"
    /\ states' = states \cup GenerateCombinedVariations(qpath)
    /\ qpc' = "done"
    /\ UNCHANGED <<qpath, qrandom, discovery_vars, side_vars, scan_vars>>

FuzzerNext ==
    \/ AddOriginal
    \/ AddEncodings
    \/ AddTraversals
    \/ AddCases
    \/ AddParameters
    \/ AddExtensions
    \/ AddCombined

FuzzerSpec == FuzzerInit /\ [][FuzzerNext]_vars

\* -- components with a specification of their own: frames --

\* what smart_request leaves alone
RequestOutside == <<scan_vars, discovery_vars, fuzzer_vars, load_vars,
                    batch_vars, qpaths_vars, heal_vars, crawl_vars,
                    report_vars, proxy_vars>>

\* the rest of the program while smart_request is looked at
RequestOutsideIdle ==
    /\ ScanNotEntered
    /\ DiscoveryOver
    /\ FuzzerIdle
    /\ LoadIdle
    /\ BatchIdle
    /\ QpathsIdle
    /\ HealIdle
    /\ CrawlIdle
    /\ ReportIdle
    /\ ProxyIdle

\* what the loading of the configuration leaves alone
LoadOutside == <<scan_vars, discovery_vars, fuzzer_vars, request_vars,
                 batch_vars, qpaths_vars, heal_vars, crawl_vars, report_vars,
                 proxy_vars>>

\* the rest of the program while the loading of the configuration is looked at
LoadOutsideIdle ==
    /\ ScanNotEntered
    /\ DiscoveryOver
    /\ FuzzerIdle
    /\ RequestIdle
    /\ BatchIdle
    /\ QpathsIdle
    /\ HealIdle
    /\ CrawlIdle
    /\ ReportIdle
    /\ ProxyIdle

\* what batch_scan_mode leaves alone
BatchOutside == <<scan_vars, discovery_vars, fuzzer_vars, request_vars,
                  load_vars, qpaths_vars, heal_vars, crawl_vars, report_vars,
                  proxy_vars>>

\* the rest of the program while batch_scan_mode is looked at
BatchOutsideIdle ==
    /\ ScanNotEntered
    /\ DiscoveryOver
    /\ FuzzerIdle
    /\ RequestIdle
    /\ LoadIdle
    /\ QpathsIdle
    /\ HealIdle
    /\ CrawlIdle
    /\ ReportIdle
    /\ ProxyIdle

\* what generate_quantum_paths leaves alone
QpathsOutside == <<scan_vars, discovery_vars, fuzzer_vars, request_vars,
                   load_vars, batch_vars, heal_vars, crawl_vars, report_vars,
                   proxy_vars>>

\* the rest of the program while generate_quantum_paths is looked at
QpathsOutsideIdle ==
    /\ ScanNotEntered
    /\ DiscoveryOver
    /\ FuzzerIdle
    /\ RequestIdle
    /\ LoadIdle
    /\ BatchIdle
    /\ HealIdle
    /\ CrawlIdle
    /\ ReportIdle
    /\ ProxyIdle

\* what execute_with_retry leaves alone
HealOutside == <<scan_vars, discovery_vars, fuzzer_vars, request_vars,
                 load_vars, batch_vars, qpaths_vars, crawl_vars, report_vars,
                 proxy_vars>>

\* the rest of the program while execute_with_retry is looked at
HealOutsideIdle ==
    /\ ScanNotEntered
    /\ DiscoveryOver
    /\ FuzzerIdle
    /\ RequestIdle
    /\ LoadIdle
    /\ BatchIdle
    /\ QpathsIdle
    /\ CrawlIdle
    /\ ReportIdle
    /\ ProxyIdle

\* what intelligent_crawler leaves alone
CrawlOutside == <<scan_vars, discovery_vars, fuzzer_vars, request_vars,
                  load_vars, batch_vars, qpaths_vars, heal_vars, report_vars,
                  proxy_vars>>

\* the rest of the program while intelligent_crawler is looked at
CrawlOutsideIdle ==
    /\ ScanNotEntered
    /\ DiscoveryOver
    /\ FuzzerIdle
    /\ RequestIdle
    /\ LoadIdle
    /\ BatchIdle
    /\ QpathsIdle
    /\ HealIdle
    /\ ReportIdle
    /\ ProxyIdle

\* what final_reporting_phase leaves alone
ReportOutside == <<scan_vars, discovery_vars, fuzzer_vars, request_vars,
                   load_vars, batch_vars, qpaths_vars, heal_vars, crawl_vars,
                   proxy_vars>>

\* the rest of the program while final_reporting_phase is looked at
ReportOutsideIdle ==
    /\ ScanNotEntered
    /\ DiscoveryOver
    /\ FuzzerIdle
    /\ RequestIdle
    /\ LoadIdle
    /\ BatchIdle
    /\ QpathsIdle
    /\ HealIdle
    /\ CrawlIdle
    /\ ProxyIdle

\* what ProxyManager leaves alone
ProxyOutside == <<scan_vars, discovery_vars, fuzzer_vars, request_vars,
                  load_vars, batch_vars, qpaths_vars, heal_vars, crawl_vars,
                  report_vars>>

\* the rest of the program while ProxyManager is looked at
ProxyOutsideIdle ==
    /\ ScanNotEntered
    /\ DiscoveryOver
    /\ FuzzerIdle
    /\ RequestIdle
    /\ LoadIdle
    /\ BatchIdle
    /\ QpathsIdle
    /\ HealIdle
    /\ CrawlIdle
    /\ ReportIdle


\* -- end of the frames --

-----------------------------------------------------------------------------
(* RequestManager.smart_request, one call looked at on its own: the sleeps *)
(* between its attempts                                                    *)

\* base_delay the except blocks of smart_request give to _smart_delay
EXCEPT_BASE_DELAY == [Timeout |-> 1, ConnectionError |-> 3]

\* _smart_delay(base_delay) after attempt att raised exception o: it sleeps
\* base_delay + random.uniform(0.5, 3.0) when enable_evasion, else not at all
SmartDelay(evasion, att, o) ==
    IF evasion
    THEN <<[after |-> att, cause |-> o, base |-> EXCEPT_BASE_DELAY[o], jitter |-> TRUE]>>
    ELSE <<>>

\* the sleeps one pass through the loop body adds for outcome o of attempt att
SleepsOfAttempt(o, att, maxr, evasion) ==
    IF o \in Exceptions
    THEN IF MayContinue(att, maxr) THEN SmartDelay(evasion, att, o) ELSE <<>>
    ELSE IF ShouldRetry(Response[o], att)[1] /\ MayContinue(att, maxr)
         THEN <<[after |-> att, cause |-> o, base |-> ShouldRetry(Response[o], att)[2],
                 jitter |-> FALSE]>>
         ELSE <<>>

\* a RequestManager with any valid max_retries up to the default, with or
\* without evasion, enters smart_request
RequestInit ==
    /\ rq_max_retries \in MIN_CONFIG_MAX_RETRIES..DEFAULT_MAX_RETRIES
    /\ rq_evasion \in BOOLEAN
    /\ rq_pc = "request"
    /\ rq_attempt = 0
    /\ rq_sent = 0
    /\ rq_waits = <<>>
    /\ rq_result = "none"
    /\ RequestOutsideIdle

\* self.session.request(...) is called
RqSend ==
    /\ rq_pc = "request"
    /\ rq_sent' = rq_sent + 1
    /\ rq_pc' = "await"
    /\ UNCHANGED <<rq_max_retries, rq_evasion, rq_attempt, rq_waits, rq_result>>

\* session.request ends with a response or an exception; the rest of the
\* loop body: the retry decision, its sleep, continue or return
RqReceive ==
    /\ rq_pc = "await"
    /\ \E o \in Outcomes :
        LET step == SmartRequestStep(o, rq_attempt, rq_max_retries)
        IN  /\ rq_waits' = rq_waits \o SleepsOfAttempt(o, rq_attempt, rq_max_retries,
                                                       rq_evasion)
            /\ rq_attempt' = IF step = "next_attempt" THEN rq_attempt + 1 ELSE rq_attempt
            /\ rq_pc' = IF step = "next_attempt" THEN "request" ELSE "done"
            /\ rq_result' = CASE step = "next_attempt" -> rq_result
                              [] step = "return_none" -> "None"
                              [] step = "return_response" -> o
    /\ UNCHANGED <<rq_max_retries, rq_evasion, rq_sent>>

RequestNext ==
    /\ RqSend \/ RqReceive
    /\ UNCHANGED RequestOutside

RequestSpec == RequestInit /\ [][RequestNext]_vars

-----------------------------------------------------------------------------
(* ConfigLoader.load_config with a config.yaml that sets the 'scanning'    *)
(* options, then ScannerEngine.scan_paths up to its executor.submit calls  *)

\* DEFAULT_CONFIG['scanning']
DEFAULT_SCANNING ==
    [max_workers |-> 10, timeout |-> 15, max_retries |-> DEFAULT_CONFIG_MAX_RETRIES]

\* VALIDATION_RULES of the integer 'scanning' options
VALIDATION_RULES ==
    [max_workers |-> [min |-> 1, max |-> 50],
     timeout |-> [min |-> 5, max |-> 60],
     max_retries |-> [min |-> MIN_CONFIG_MAX_RETRIES, max |-> MAX_CONFIG_MAX_RETRIES]]

\* values a config.yaml may give the options: in range, at and beyond the limits
FileValues ==
    [max_workers : {-1, 0, 1, 10, 50, 51, 100},
     timeout : {4, 15, 61},
     max_retries : {0, 3, 11}]

\* _deep_merge(DEFAULT_CONFIG.copy(), user_config): the value of the file
\* replaces the default
DeepMerge(base, update) == [key \in DOMAIN base |-> update[key]]

\* _validate_config: the key paths whose value is below min or above max
ValidateConfig(cfg) ==
    {key \in DOMAIN VALIDATION_RULES :
        \/ cfg[key] < VALIDATION_RULES[key].min
        \/ cfg[key] > VALIDATION_RULES[key].max}

\* ScannerEngine() is being built: config.yaml exists and sets the options
LoadInit ==
    /\ ld_file \in FileValues
    /\ ld_config = DEFAULT_SCANNING
    /\ ld_errors = {}
    /\ ld_pc = "load_config"
    /\ ld_pool = 0
    /\ ld_dispatched = 0
    /\ ld_error = "none"
    /\ LoadOutsideIdle

\* load_config: merge, validate, print the issues, return final_config
LoadConfig ==
    /\ ld_pc = "load_config"
    /\ ld_config' = DeepMerge(DEFAULT_SCANNING, ld_file)
    /\ ld_errors' = ValidateConfig(ld_config')
    /\ ld_pc' = "scan_paths"
    /\ UNCHANGED <<ld_file, ld_pool, ld_dispatched, ld_error>>

\* scan_paths: scan_config = self.config['scanning'] and
\* ThreadPoolExecutor(max_workers=scan_config['max_workers']), which raises
\* ValueError for max_workers <= 0
CreateExecutor ==
    /\ ld_pc = "scan_paths"
    /\ IF ld_config.max_workers <= 0
       THEN /\ ld_error' = "ValueError: max_workers must be greater than 0"
            /\ ld_pc' = "failed"
            /\ UNCHANGED ld_pool
       ELSE /\ ld_pool' = ld_config.max_workers
            /\ ld_pc' = "submit"
            /\ UNCHANGED ld_error
    /\ UNCHANGED <<ld_file, ld_config, ld_errors, ld_dispatched>>

\* executor.submit(scan_single_path, path) for one more path
SubmitProbe ==
    /\ ld_pc = "submit"
    /\ ld_dispatched < NumPaths
    /\ ld_dispatched' = ld_dispatched + 1
    /\ UNCHANGED <<ld_file, ld_config, ld_errors, ld_pc, ld_pool, ld_error>>

LoadNext ==
    /\ LoadConfig \/ CreateExecutor \/ SubmitProbe
    /\ UNCHANGED LoadOutside

LoadSpec == LoadInit /\ [][LoadNext]_vars

-----------------------------------------------------------------------------
(* main.batch_scan_mode: one scan per valid line of the input file.  A     *)
(* signal ends the whole program (signal_handler) and is not part of it.   *)

\* str.startswith
StartsWith(s, prefix) == Len(s) >= Len(prefix) /\ SubSeq(s, 1, Len(prefix)) = prefix

HTTP_PREFIX == <<"h", "t", "t", "p", ":", "/", "/">>

HTTPS_PREFIX == <<"h", "t", "t", "p", "s", ":", "/", "/">>

\* urlparse(url).scheme: the characters before the first ':', lower case, when
\* they begin with a letter and are letters, digits, '+', '-' or '.'
UrlScheme(url) ==
    LET colons == {k \in 1..Len(url) : url[k] = ":"}
        first == CHOOSE k \in colons : \A j \in colons : k <= j
        head == SubSeq(url, 1, first - 1)
    IN  IF colons # {} /\ head # <<>> /\ IsLetter(head[1])
           /\ \A k \in 1..Len(head) :
                 \/ IsLetter(head[k])
                 \/ (Ord(head[k]) >= 48 /\ Ord(head[k]) <= 57)
                 \/ head[k] \in {"+", "-", "."}
        THEN Lower(head)
        ELSE <<>>

\* urlparse(url).netloc: what follows '//' after the scheme, up to the next
\* '/', '?' or '#'
UrlNetloc(url) ==
    LET rest == IF UrlScheme(url) = <<>> THEN url
                ELSE SubSeq(url, Len(UrlScheme(url)) + 2, Len(url))
        after == SubSeq(rest, 3, Len(rest))
        ends == {k \in 1..Len(after) : after[k] \in {"/", "?", "#"}}
    IN  IF ~StartsWith(rest, <<"/", "/">>) THEN <<>>
        ELSE IF ends = {} THEN after
        ELSE SubSeq(after, 1, (CHOOSE k \in ends : \A j \in ends : k <= j) - 1)

\* helpers.validate_url
ValidateUrl(url) ==
    /\ url # <<>>
    /\ UrlScheme(url) \in {<<"h", "t", "t", "p">>, <<"h", "t", "t", "p", "s">>}
    /\ UrlNetloc(url) # <<>>
    /\ \A k \in 1..Len(url) : url[k] \in Range(ASCII_TABLE) \cup Range(ASCII_TABLE_97)

\* validate_and_fix_url: the URL to scan, or <<>> for None
ValidateAndFixUrl(target_url) ==
    LET undashed == IF StartsWith(target_url, <<"-", "-">>)
                    THEN SubSeq(target_url, 3, Len(target_url))
                    ELSE target_url
        fixed == IF ~StartsWith(undashed, HTTP_PREFIX) /\ ~StartsWith(undashed, HTTPS_PREFIX)
                 THEN HTTPS_PREFIX \o undashed
                 ELSE undashed
    IN  IF target_url = <<>> THEN <<>>
        ELSE IF ValidateUrl(undashed) THEN undashed
        ELSE IF ValidateUrl(fixed) THEN fixed
        ELSE <<>>

\* lines an input file may hold
UrlLines ==
    { <<"h", "t", "t", "p", "s", ":", "/", "/", "a", ".", "i", "o">>,
      <<"a", ".", "i", "o", "/", "x">>,
      <<"-", "-", "h", "t", "t", "p", ":", "/", "/", "a", ".", "i", "o">>,
      <<"h", "t", "t", "p", ":", "/", "/">>,
      <<"h", "t", "t", "p", "s", ":", "/", "/", "/", "x">>,
      <<"f", "t", "p", ":", "/", "/", "a", ".", "i", "o">> }

\* the input files: up to MaxTargets lines
InputFiles == UNION {[1..n -> UrlLines] : n \in 1..MaxTargets}

\* batch_scan_mode has read the file and enters its for loop
BatchInit ==
    /\ bt_urls \in InputFiles
    /\ bt_i = 0
    /\ bt_pc = "validate"
    /\ bt_target = <<>>
    /\ bt_attempted = <<>>
    /\ bt_report = <<>>
    /\ BatchOutsideIdle

\* validated_url = validate_and_fix_url(url); an invalid URL is skipped
BatchValidate ==
    /\ bt_pc = "validate"
    /\ bt_i < Len(bt_urls)
    /\ bt_target' = ValidateAndFixUrl(bt_urls[bt_i + 1])
    /\ IF bt_target' = <<>>
       THEN /\ bt_report' = Append(bt_report, <<bt_i + 1, "skipped">>)
            /\ bt_i' = bt_i + 1
            /\ UNCHANGED bt_pc
       ELSE /\ bt_pc' = "scan"
            /\ UNCHANGED <<bt_report, bt_i>>
    /\ UNCHANGED <<bt_urls, bt_attempted>>

\* variant: an exception of one scan leaves the for loop
BatchScanAborting ==
    /\ bt_pc = "scan"
    /\ bt_attempted' = Append(bt_attempted, bt_i + 1)
    /\ \E outcome \in {"completed", "failed"} :
          /\ bt_report' = Append(bt_report, <<bt_i + 1, outcome>>)
          /\ bt_i' = IF outcome = "failed" THEN Len(bt_urls) ELSE bt_i + 1
    /\ bt_pc' = "validate"
    /\ UNCHANGED <<bt_urls, bt_target>>

\* the inner try: ScannerEngine().start_scan(validated_url) returns its report
\* or raises an Exception, which the except clause prints
BatchScan ==
    /\ bt_pc = "scan"
    /\ bt_attempted' = Append(bt_attempted, bt_i + 1)
    /\ \E outcome \in {"completed", "failed"} :
          bt_report' = Append(bt_report, <<bt_i + 1, outcome>>)
    /\ bt_i' = bt_i + 1
    /\ bt_pc' = "validate"
    /\ UNCHANGED <<bt_urls, bt_target>>

\* the for loop is exhausted
BatchEnd ==
    /\ bt_pc = "validate"
    /\ bt_i = Len(bt_urls)
    /\ bt_pc' = "done"
    /\ UNCHANGED <<bt_urls, bt_i, bt_target, bt_attempted, bt_report>>

BatchNext ==
    /\ BatchValidate \/ BatchScan \/ BatchEnd
    /\ UNCHANGED BatchOutside

BatchSpec == BatchInit /\ [][BatchNext]_vars

-----------------------------------------------------------------------------
(* QuantumFuzzer.generate_quantum_paths: the loop over the base paths and  *)
(* the final slice                                                         *)

Min(a, b) == IF a < b THEN a ELSE b

\* list(s) for a set s, in one order
RECURSIVE SetToSeq(_)
SetToSeq(s) ==
    IF s = {} THEN <<>>
    ELSE LET x == CHOOSE x \in s : TRUE IN <<x>> \o SetToSeq(s \ {x})

\* generate_quantum_states(path): list(states), every state once
GenerateQuantumStates(path, mask) ==
    SetUpdate(<<path>>,
              GenerateAllEncodings(path)
              \o SetToSeq(GenerateTraversalVariations(path))
              \o SetToSeq(GenerateCaseVariations(path, mask))
              \o (IF LooksLikeApi(path)
                  THEN SetToSeq(GenerateParameterVariations(path)) ELSE <<>>)
              \o SetToSeq(GenerateExtensionVariations(path))
              \o SetToSeq(GenerateCombinedVariations(path)))

\* self.natural_paths
NATURAL_PATHS ==
    <<"a", "d", "m", "i", "n">> :>
        << <<"/", "a", "d", "m", "i", "n">>,
           <<"/", "a", "d", "m", "i", "n", "i", "s", "t", "r", "a", "t", "o", "r">>,
           <<"/", "a", "d", "m", "i", "n", "p", "a", "n", "e", "l">>,
           <<"/", "a", "d", "m", "i", "n", "/", "l", "o", "g", "i", "n">>,
           <<"/", "a", "d", "m", "i", "n", "/", "d", "a", "s", "h", "b", "o", "a", "r", "d">>,
           <<"/", "a", "d", "m", "i", "n", "/", "c", "o", "n", "f", "i", "g">>,
           <<"/", "a", "d", "m", "i", "n", "/", "s", "e", "t", "t", "i", "n", "g", "s">>,
           <<"/", "w", "p", "-", "a", "d", "m", "i", "n">>,
           <<"/", "a", "d", "m", "i", "n", "i", "s", "t", "r", "a", "t", "o", "r", "/", "l", "o", "g", "i", "n">>,
           <<"/", "a", "d", "m", "i", "n", "c", "p">> >> @@
    <<"a", "p", "i">> :>
        << <<"/", "a", "p", "i">>,
           <<"/", "a", "p", "i", "/", "v", "1">>,
           <<"/", "a", "p", "i", "/", "v", "2">>,
           <<"/", "a", "p", "i", "/", "v", "3">>,
           <<"/", "g", "r", "a", "p", "h", "q", "l">>,
           <<"/", "r", "e", "s", "t">>,
           <<"/", "j", "s", "o", "n">>,
           <<"/", "a", "p", "i", "/", "d", "o", "c", "s">>,
           <<"/", "a", "p", "i", "/", "s", "w", "a", "g", "g", "e", "r">>,
           <<"/", "a", "p", "i", "/", "r", "e", "d", "o", "c">> >> @@
    <<"a", "u", "t", "h">> :>
        << <<"/", "l", "o", "g", "i", "n">>,
           <<"/", "s", "i", "g", "n", "i", "n">>,
           <<"/", "l", "o", "g", "o", "u", "t">>,
           <<"/", "s", "i", "g", "n", "o", "u", "t">>,
           <<"/", "r", "e", "g", "i", "s", "t", "e", "r">>,
           <<"/", "s", "i", "g", "n", "u", "p">>,
           <<"/", "a", "u", "t", "h">>,
           <<"/", "o", "a", "u", "t", "h">>,
           <<"/", "s", "s", "o">>,
           <<"/", "p", "a", "s", "s", "w", "o", "r", "d", "/", "r", "e", "s", "e", "t">> >> @@
    <<"f", "i", "l", "e", "s">> :>
        << <<"/", "u", "p", "l", "o", "a", "d", "s">>,
           <<"/", "f", "i", "l", "e", "s">>,
           <<"/", "d", "o", "c", "u", "m", "e", "n", "t", "s">>,
           <<"/", "i", "m", "a", "g", "e", "s">>,
           <<"/", "a", "s", "s", "e", "t", "s">>,
           <<"/", "s", "t", "a", "t", "i", "c">>,
           <<"/", "m", "e", "d", "i", "a">>,
           <<"/", "d", "o", "w", "n", "l", "o", "a", "d", "s">>,
           <<"/", "b", "a", "c", "k", "u", "p", "s">>,
           <<"/", "t", "m", "p">> >> @@
    <<"c", "o", "n", "f", "i", "g">> :>
        << <<"/", "c", "o", "n", "f", "i", "g">>,
           <<"/", "c", "o", "n", "f", "i", "g", "u", "r", "a", "t", "i", "o", "n">>,
           <<"/", "s", "e", "t", "t", "i", "n", "g", "s">>,
           <<"/", "s", "e", "t", "u", "p">>,
           <<"/", "i", "n", "s", "t", "a", "l", "l">>,
           <<"/", "i", "n", "i", "t", "i", "a", "l", "i", "z", "e">>,
           <<"/", "e", "n", "v">>,
           <<"/", ".", "e", "n", "v">>,
           <<"/", "c", "o", "n", "f", "i", "g", ".", "j", "s", "o", "n">> >> @@
    <<"d", "a", "t", "a", "b", "a", "s", "e">> :>
        << <<"/", "d", "b">>,
           <<"/", "d", "a", "t", "a", "b", "a", "s", "e">>,
           <<"/", "s", "q", "l">>,
           <<"/", "m", "y", "s", "q", "l">>,
           <<"/", "p", "o", "s", "t", "g", "r", "e", "s">>,
           <<"/", "m", "o", "n", "g", "o", "d", "b">>,
           <<"/", "r", "e", "d", "i", "s">>,
           <<"/", "p", "h", "p", "m", "y", "a", "d", "m", "i", "n">>,
           <<"/", "a", "d", "m", "i", "n", "e", "r">> >> @@
    <<"d", "e", "v", "e", "l", "o", "p", "m", "e", "n", "t">> :>
        << <<"/", "d", "e", "v">>,
           <<"/", "d", "e", "v", "e", "l", "o", "p", "m", "e", "n", "t">>,
           <<"/", "s", "t", "a", "g", "i", "n", "g">>,
           <<"/", "t", "e", "s", "t">>,
           <<"/", "d", "e", "b", "u", "g">>,
           <<"/", "c", "o", "n", "s", "o", "l", "e">>,
           <<"/", "s", "h", "e", "l", "l">>,
           <<"/", "t", "e", "r", "m", "i", "n", "a", "l">>,
           <<"/", "a", "p", "i", "/", "d", "e", "b", "u", "g">> >> @@
    <<"l", "o", "g", "s">> :>
        << <<"/", "l", "o", "g", "s">>,
           <<"/", "l", "o", "g">>,
           <<"/", "v", "a", "r", "/", "l", "o", "g">>,
           <<"/", "t", "m", "p", "/", "l", "o", "g", "s">>,
           <<"/", "d", "e", "b", "u", "g", "/", "l", "o", "g">>,
           <<"/", "a", "p", "p", "l", "i", "c", "a", "t", "i", "o", "n", "/", "l", "o", "g", "s">>,
           <<"/", "s", "y", "s", "t", "e", "m", "/", "l", "o", "g", "s">> >>

\* self.common_patterns['api_patterns'] and self.common_patterns['wordpress']
API_PATTERNS ==
        << <<"/", "u", "s", "e", "r", "s">>,
       <<"/", "p", "r", "o", "d", "u", "c", "t", "s">>,
       <<"/", "o", "r", "d", "e", "r", "s">>,
       <<"/", "c", "u", "s", "t", "o", "m", "e", "r", "s">>,
       <<"/", "a", "u", "t", "h", "/", "t", "o", "k", "e", "n">>,
       <<"/", "u", "s", "e", "r", "/", "p", "r", "o", "f", "i", "l", "e">>,
       <<"/", "a", "p", "i", "/", "h", "e", "a", "l", "t", "h">> >>

WORDPRESS_PATTERNS ==
    << <<"/", "w", "p", "-", "c", "o", "n", "t", "e", "n", "t">>,
       <<"/", "w", "p", "-", "i", "n", "c", "l", "u", "d", "e", "s">>,
       <<"/", "w", "p", "-", "j", "s", "o", "n">>,
       <<"/", "w", "p", "-", "a", "d", "m", "i", "n">>,
       <<"/", "x", "m", "l", "r", "p", "c", ".", "p", "h", "p">>,
       <<"/", "w", "p", "-", "c", "o", "n", "f", "i", "g", ".", "p", "h", "p">>,
       <<"/", "w", "p", "-", "l", "o", "g", "i", "n", ".", "p", "h", "p">> >>

\* re.split(r'[/\-_.]', text)
SplitKeywords(text) ==
    LET at == SelectSeq([k \in 1..Len(text) |-> k],
                        LAMBDA k : text[k] \in {"/", "-", "_", "."})
        from(k) == IF k = 1 THEN 1 ELSE at[k - 1] + 1
        to(k) == IF k = Len(at) + 1 THEN Len(text) ELSE at[k] - 1
    IN  [k \in 1..(Len(at) + 1) |-> SubSeq(text, from(k), to(k))]

IsDigits(s) == s # <<>> /\ \A k \in 1..Len(s) : Ord(s[k]) >= 48 /\ Ord(s[k]) <= 57

\* extract_keywords_from_string: the set keywords
ExtractKeywords(text) ==
    LET parts == SplitKeywords(text)
        clean(part) == SelectSeq(part, IsLetter)
    IN  {Lower(clean(parts[k])) : k \in {j \in 1..Len(parts) :
            /\ Len(parts[j]) > 2
            /\ ~IsDigits(parts[j])
            /\ Len(clean(parts[j])) > 2}}

\* keywords[:5]: the first five of list(keywords), any five of the set
FirstFiveOf(keywords) ==
    {K \in SUBSET keywords : Cardinality(K) = Min(5, Cardinality(keywords))}

\* QuantumFuzzer.generate_natural_variations(path) for the keywords taken
FuzzerNaturalVariations(path, taken) ==
    UNION {Range(SubSeq(NATURAL_PATHS[keyword], 1, 3)) :
              keyword \in taken \cap DOMAIN NATURAL_PATHS}
    \cup (IF Contains(Lower(path), <<"a", "p", "i">>)
          THEN Range(SubSeq(API_PATTERNS, 1, 5)) ELSE {})
    \cup (IF Contains(Lower(path), <<"a", "d", "m", "i", "n">>)
          THEN Range(SubSeq(WORDPRESS_PATTERNS, 1, 3)) ELSE {})

\* list(s): the elements of the set in some order, here a rotation by k of
\* the order they were added in
Listed(s, k) == SubSeq(s, k + 1, Len(s)) \o SubSeq(s, 1, k)

\* variant: the list is returned whole
SliceNone(listed, max_paths) == listed

\* listed[:max_paths] for max_paths >= 0
Slice(listed, max_paths) == SubSeq(listed, 1, Min(max_paths, Len(listed)))

\* lists of base paths
BasePathLists ==
    { <<>>,
      << <<"/", "a", "p", "i", "/", "u", "s", "e", "r", "s">>, <<"/", "s", "t", "a", "t", "i", "c", "/", "m", "a", "i", "n", ".", "j", "s">> >>,
      << <<"/", "l", "o", "g", "i", "n">> >>,
      << <<"/", "a", "d", "m", "i", "n", "/", "c", "o", "n", "f", "i", "g">>, <<"/", "l", "o", "g", "i", "n">> >>,
      << <<"/", "d", "o", "c", "s">>, <<"/", "f", "i", "l", "e", "s", "/", "r", "e", "p", "o", "r", "t", ".", "p", "d", "f">>,
         <<"/", "v", "1", "/", "d", "a", "t", "a">> >> }

\* values of max_paths: none, one, the test's ten, the module test's fifty
MaxPathsValues == {0, 1, 10, 50}

\* generate_quantum_paths(base_paths, max_paths) is entered
QuantumPathsInit ==
    /\ qp_bases \in BasePathLists
    /\ qp_max \in MaxPathsValues
    /\ qp_i = 0
    /\ qp_pc = "loop"
    /\ qp_paths = <<>>
    /\ qp_final = <<>>
    /\ QpathsOutsideIdle

\* one iteration of  for i, base_path in enumerate(base_paths[:30]) : the
\* quantum states and the natural variations of the path are added, and the
\* loop is left when the set has reached max_paths
QuantumPathsIteration ==
    /\ qp_pc = "loop"
    /\ qp_i < Min(30, Len(qp_bases))
    /\ \E mask \in RandomCaseSamples(Len(qp_bases[qp_i + 1])),
          taken \in FirstFiveOf(ExtractKeywords(qp_bases[qp_i + 1])) :
          LET base_path == qp_bases[qp_i + 1]
              natural_variations == SetToSeq(FuzzerNaturalVariations(base_path, taken))
          IN  qp_paths' = SetUpdate(SetUpdate(qp_paths,
                                              GenerateQuantumStates(base_path, mask)),
                                    natural_variations)
    /\ qp_i' = qp_i + 1
    /\ qp_pc' = IF Len(qp_paths') >= qp_max THEN "slice" ELSE "loop"
    /\ UNCHANGED <<qp_bases, qp_max, qp_final>>

\* the for loop is exhausted
QuantumPathsLoopEnd ==
    /\ qp_pc = "loop"
    /\ qp_i = Min(30, Len(qp_bases))
    /\ qp_pc' = "slice"
    /\ UNCHANGED <<qp_bases, qp_max, qp_i, qp_paths, qp_final>>

\* final_paths = list(quantum_paths)[:max_paths]; return final_paths
QuantumPathsSlice ==
    /\ qp_pc = "slice"
    /\ \E k \in 0..Len(qp_paths) : qp_final' = Slice(Listed(qp_paths, k), qp_max)
    /\ qp_pc' = "done"
    /\ UNCHANGED <<qp_bases, qp_max, qp_i, qp_paths>>

QuantumPathsNext ==
    /\ QuantumPathsIteration \/ QuantumPathsLoopEnd \/ QuantumPathsSlice
    /\ UNCHANGED QpathsOutside

QuantumPathsSpec == QuantumPathsInit /\ [][QuantumPathsNext]_vars

-----------------------------------------------------------------------------
(* HealingEngine.execute_with_retry around a function that returns or      *)
(* raises                                                                  *)

\* _initialize_strategies: the strategy of an error type, heal_generic for a
\* type without an entry
RECOVERY_STRATEGIES ==
    [ConnectionError |-> "heal_connection", Timeout |-> "heal_timeout"]

Strategy(error_type) ==
    IF error_type \in DOMAIN RECOVERY_STRATEGIES
    THEN RECOVERY_STRATEGIES[error_type] ELSE "heal_generic"

\* what a call of func does: it returns, or raises an Exception of a type
\* with a strategy or of a type without one
FuncOutcomes == {"returns", "ConnectionError", "Timeout", "ValueError"}

\* values of max_retries: the default 3 and its neighbours, none and one
HealMaxRetries == 0..4

\* variant: the healing strategy is applied after every failed attempt
MayHealAlways(att, maxr) == TRUE

\* if attempt < self.max_retries - 1
MayHeal(att, maxr) == att < maxr - 1

\* HealingEngine(max_retries), then execute_with_retry(func) is entered
HealInit ==
    /\ hl_max_retries \in HealMaxRetries
    /\ hl_attempt = 0
    /\ hl_pc = "loop"
    /\ hl_calls = <<>>
    /\ hl_heals = <<>>
    /\ hl_outcome = [kind |-> "none"]
    /\ HealOutsideIdle

\* for attempt in range(self.max_retries): the next call of func begins
HealCall ==
    /\ hl_pc = "loop"
    /\ hl_attempt < hl_max_retries
    /\ hl_pc' = "func"
    /\ UNCHANGED <<hl_max_retries, hl_attempt, hl_calls, hl_heals, hl_outcome>>

\* func returns: return result
HealSuccess ==
    /\ hl_pc = "func"
    /\ hl_calls' = Append(hl_calls, "returns")
    /\ hl_outcome' = [kind |-> "return", call |-> Len(hl_calls) + 1]
    /\ hl_pc' = "done"
    /\ UNCHANGED <<hl_max_retries, hl_attempt, hl_heals>>

\* func raises: the except branch with _apply_healing_strategy and continue,
\* or after the final attempt break and  raise last_exception
HealFailure ==
    /\ hl_pc = "func"
    /\ \E error_type \in FuncOutcomes \ {"returns"} :
          /\ hl_calls' = Append(hl_calls, error_type)
          /\ IF MayHeal(hl_attempt, hl_max_retries)
             THEN /\ hl_heals' = Append(hl_heals, [attempt |-> hl_attempt,
                                                   strategy |-> Strategy(error_type)])
                  /\ hl_attempt' = hl_attempt + 1
                  /\ hl_pc' = "loop"
                  /\ UNCHANGED hl_outcome
             ELSE /\ hl_outcome' = [kind |-> "raise", call |-> Len(hl_calls) + 1,
                                    error_type |-> error_type]
                  /\ hl_pc' = "done"
                  /\ UNCHANGED <<hl_heals, hl_attempt>>
    /\ UNCHANGED hl_max_retries

\* range(self.max_retries) is empty: last_exception is None, return None
HealNoAttempt ==
    /\ hl_pc = "loop"
    /\ hl_attempt >= hl_max_retries
    /\ hl_outcome' = [kind |-> "return", call |-> 0]
    /\ hl_pc' = "done"
    /\ UNCHANGED <<hl_max_retries, hl_attempt, hl_calls, hl_heals>>

HealNext ==
    /\ HealCall \/ HealSuccess \/ HealFailure \/ HealNoAttempt
    /\ UNCHANGED HealOutside

HealSpec == HealInit /\ [][HealNext]_vars

-----------------------------------------------------------------------------
(* intelligent_crawler: the loop over to_visit.  The conversion of the     *)
(* discovered URLs into the returned relative paths is not looked at       *)

\* the start URL, three pages of its domain and a page of another domain
CRAWL_BASE_URL == <<"h", "t", "t", "p", "s", ":", "/", "/", "a", ".", "i", "o">>

PAGE_X == <<"h", "t", "t", "p", "s", ":", "/", "/", "a", ".", "i", "o", "/", "x">>

PAGE_Y == <<"h", "t", "t", "p", "s", ":", "/", "/", "a", ".", "i", "o", "/", "y">>

PAGE_Z == <<"h", "t", "t", "p", "s", ":", "/", "/", "a", ".", "i", "o", "/", "z">>

PAGE_ELSEWHERE == <<"h", "t", "t", "p", "s", ":", "/", "/", "b", ".", "i", "o", "/", "w">>

\* sites: for every URL the URLs extract_paths_from_html returns for its page
\* when the page is served
CrawlSites ==
    { (CRAWL_BASE_URL :> {PAGE_X, PAGE_Y, PAGE_Z, PAGE_ELSEWHERE})
        @@ (PAGE_X :> {PAGE_Y, CRAWL_BASE_URL}) @@ (PAGE_Y :> {})
        @@ (PAGE_Z :> {PAGE_X}) @@ (PAGE_ELSEWHERE :> {}),
      (CRAWL_BASE_URL :> {PAGE_X})
        @@ (PAGE_X :> {PAGE_Y}) @@ (PAGE_Y :> {PAGE_Z})
        @@ (PAGE_Z :> {CRAWL_BASE_URL}) @@ (PAGE_ELSEWHERE :> {}) }

\* values of max_pages
CrawlMaxPages == 0..3

\* what session.get(current_url, timeout=15) does: a response with status
\* code 200 or another one, or one of the exceptions the loop catches
GetOutcomes == {"200", "404", "Timeout", "RequestException"}

\* is_same_domain(url, base_url)
IsSameDomain(url, base) == UrlNetloc(url) = UrlNetloc(base)

\* list(paths) for the set paths: every order
Orders(s) ==
    {o \in [1..Cardinality(s) -> s] : \A j, k \in DOMAIN o : o[j] = o[k] => j = k}

\* for path in new_paths: the paths not discovered before that the loop
\* appends to to_visit
Queued(new_paths, discovered, visited) ==
    SelectSeq(new_paths,
              LAMBDA path : /\ path \notin discovered
                            /\ IsSameDomain(path, CRAWL_BASE_URL)
                            /\ path \notin visited)

\* visited.add(current_url) follows session.get inside the try: it is reached
\* when the get returned a response and skipped when the get raised
MarkVisited(visited, url, outcome) ==
    IF outcome \in {"Timeout", "RequestException"} THEN visited ELSE visited \cup {url}

\* intelligent_crawler(base_url, max_pages) is entered
CrawlInit ==
    /\ cr_site \in CrawlSites
    /\ cr_max_pages \in CrawlMaxPages
    /\ cr_to_visit = <<CRAWL_BASE_URL>>
    /\ cr_visited = {}
    /\ cr_discovered = {}
    /\ cr_requests = <<>>
    /\ cr_pc = "loop"
    /\ CrawlOutsideIdle

\* one iteration of the while loop: continue for a URL in visited; else the
\* get, visited.add when it returned, the paths of a page with status 200,
\* the except branches, the delay
CrawlIteration ==
    /\ cr_pc = "loop"
    /\ cr_to_visit # <<>> /\ Cardinality(cr_visited) < cr_max_pages
    /\ LET current_url == Head(cr_to_visit)
       IN  IF current_url \in cr_visited
           THEN /\ cr_to_visit' = Tail(cr_to_visit)
                /\ UNCHANGED <<cr_visited, cr_discovered, cr_requests>>
           ELSE \E outcome \in GetOutcomes :
                   /\ cr_requests' = Append(cr_requests, current_url)
                   /\ cr_visited' = MarkVisited(cr_visited, current_url, outcome)
                   /\ IF outcome = "200"
                      THEN \E new_paths \in Orders(cr_site[current_url]) :
                              /\ cr_discovered' = cr_discovered \cup Range(new_paths)
                              /\ cr_to_visit' = Tail(cr_to_visit)
                                     \o Queued(new_paths, cr_discovered, cr_visited')
                      ELSE /\ cr_to_visit' = Tail(cr_to_visit)
                           /\ UNCHANGED cr_discovered
    /\ UNCHANGED <<cr_site, cr_max_pages, cr_pc>>

\* the while condition is false: the loop is left
CrawlEnd ==
    /\ cr_pc = "loop"
    /\ ~(cr_to_visit # <<>> /\ Cardinality(cr_visited) < cr_max_pages)
    /\ cr_pc' = "done"
    /\ UNCHANGED <<cr_site, cr_max_pages, cr_to_visit, cr_visited, cr_discovered,
                   cr_requests>>

CrawlNext ==
    /\ CrawlIteration \/ CrawlEnd
    /\ UNCHANGED CrawlOutside

CrawlSpec == CrawlInit /\ [][CrawlNext]_vars

-----------------------------------------------------------------------------
(* ScannerEngine.final_reporting_phase: the counts of final_report          *)

\* r.get(key) in a condition: None, the value of a missing key, is false
Get(r, key) == IF key \in DOMAIN r THEN r[key] ELSE FALSE

\* variant: the records with status 200
SuccessfulScansByStatus(sr) ==
    SelectSeq(sr, LAMBDA r : "status_code" \in DOMAIN r /\ r.status_code = 200)

\* successful_scans = [r for r in scan_results if r.get('success')]
SuccessfulScans(sr) == SelectSeq(sr, LAMBDA r : Get(r, "success"))

\* saved_files = [r for r in successful_scans if r.get('saved')]
SavedFiles(successful_scans) == SelectSeq(successful_scans, LAMBDA r : Get(r, "saved"))

\* errors = [r for r in scan_results if 'error' in r]
ErrorRecords(sr) == SelectSeq(sr, LAMBDA r : "error" \in DOMAIN r)

\* the counts and the path list of final_report
FinalReport(sr) ==
    LET successful_scans == SuccessfulScans(sr)
    IN  [total_paths_scanned |-> Len(sr),
         successful_finds |-> Len(successful_scans),
         saved_files |-> Len(SavedFiles(successful_scans)),
         errors_count |-> Len(ErrorRecords(sr)),
         successful_paths |-> [k \in 1..Len(successful_scans) |-> successful_scans[k].path]]

\* the answers of the server the records are made of: pages above and at the
\* length threshold, an empty page, a 403, a 404 and a 500
ReportResponses == {"html21", "html20", "health", "admin", "r404", "r500"}

\* the dicts scan_single_path can return for a path: the error dict, the
\* result of a response that is no finding, the result of a finding with
\* 'saved' set to what intelligent_save returned
RecordsOf(path) ==
    {ErrorDict("https://example.test", path)}
    \cup UNION {LET result == ResultDict("https://example.test", path, Response[n])
                IN  IF result.success
                    THEN {WithSaved(result, save_success) : save_success \in BOOLEAN}
                    ELSE {result} : n \in ReportResponses}

\* the lists scan_paths can return for the first paths of the catalog, in
\* the order of the paths
ResultLists ==
    UNION {{sr \in [1..n -> UNION {RecordsOf(PathCatalog[k]) : k \in 1..n}] :
               \A k \in 1..n : sr[k] \in RecordsOf(PathCatalog[k])} : n \in 0..NumPaths}

\* the values found_count or error_count can have after n increments by
\* threads that may lose each other's updates
RacyCount(n) == IF n = 0 THEN {0} ELSE 1..n

\* scan_paths has returned and final_reporting_phase is entered
ReportInit ==
    /\ rp_results \in ResultLists
    /\ rp_found_count \in RacyCount(Len(SuccessfulScans(rp_results)))
    /\ rp_error_count \in RacyCount(Len(ErrorRecords(rp_results)))
    /\ rp_report = NoDict
    /\ rp_pc = "report"
    /\ ReportOutsideIdle

\* final_reporting_phase: final_report is built, written as JSON and HTML
\* and returned
FinalReportingPhase ==
    /\ rp_pc = "report"
    /\ rp_report' = FinalReport(rp_results)
    /\ rp_pc' = "done"
    /\ UNCHANGED <<rp_results, rp_found_count, rp_error_count>>

ReportNext ==
    /\ FinalReportingPhase
    /\ UNCHANGED ReportOutside

ReportSpec == ReportInit /\ [][ReportNext]_vars

-----------------------------------------------------------------------------
(* ProxyManager: the proxy list and the rotation index                     *)

\* the proxies of the model
ProxyNames == {"10.0.0.1:8080", "10.0.0.2:8080", "10.0.0.3:8080"}

\* proxy files, line by line without the surrounding blanks: an empty file,
\* one proxy, two proxies around a blank line, three proxies
ProxyFiles ==
    { <<>>,
      <<"10.0.0.1:8080">>,
      <<"10.0.0.2:8080", "", "10.0.0.3:8080">>,
      <<"10.0.0.1:8080", "10.0.0.2:8080", "10.0.0.3:8080">> }

\* default of max_test in validate_all_proxies
DEFAULT_MAX_TEST == 20

\* the sublist of s at the positions in keep, in the order of s
Sublist(s, keep) ==
    LET at == SelectSeq([k \in 1..Len(s) |-> k], LAMBDA k : k \in keep)
    IN  [k \in 1..Len(at) |-> s[at[k]]]

\* ProxyManager()
ProxyInit ==
    /\ px_proxies = <<>>
    /\ px_current_index = 0
    /\ px_last = "none"
    /\ ProxyOutsideIdle

\* load_proxies_from_file: the lines that are not blank replace the list (a
\* file that cannot be read changes nothing)
LoadProxiesFromFile ==
    /\ \E file \in ProxyFiles : px_proxies' = SelectSeq(file, LAMBDA line : line # "")
    /\ UNCHANGED <<px_current_index, px_last>>

\* add_proxy(proxy)
AddProxy ==
    /\ \E proxy \in ProxyNames \cup {""} :
          px_proxies' = IF proxy # "" /\ proxy \notin Range(px_proxies)
                        THEN Append(px_proxies, proxy) ELSE px_proxies
    /\ UNCHANGED <<px_current_index, px_last>>

\* get_next_proxy: None for an empty list, else self.proxies[current_index],
\* which raises IndexError for an index beyond the list, then the index moves
GetNextProxy ==
    IF px_proxies = <<>>
    THEN /\ px_last' = "None"
         /\ UNCHANGED <<px_proxies, px_current_index>>
    ELSE IF px_current_index >= Len(px_proxies)
    THEN /\ px_last' = "IndexError"
         /\ UNCHANGED <<px_proxies, px_current_index>>
    ELSE /\ px_last' = px_proxies[px_current_index + 1]
         /\ px_current_index' = (px_current_index + 1) % Len(px_proxies)
         /\ UNCHANGED px_proxies

\* validate_all_proxies(): the proxies among the first max_test that
\* validate_proxy finds working become the list
ValidateAllProxies ==
    /\ LET test_count == IF DEFAULT_MAX_TEST < Len(px_proxies)
                         THEN DEFAULT_MAX_TEST ELSE Len(px_proxies)
       IN  \E working \in SUBSET (1..test_count) :
              px_proxies' = Sublist(px_proxies, working)
    /\ UNCHANGED <<px_current_index, px_last>>

\* clear_proxies
ClearProxies ==
    /\ px_proxies' = <<>>
    /\ px_current_index' = 0
    /\ UNCHANGED px_last

ProxyNext ==
    /\ \/ LoadProxiesFromFile
       \/ AddProxy
       \/ GetNextProxy
       \/ ValidateAllProxies
       \/ ClearProxies
    /\ UNCHANGED ProxyOutside

ProxySpec == ProxyInit /\ [][ProxyNext]_vars

-----------------------------------------------------------------------------
(* Properties *)

\* the dict scan_single_path has built for path i (NoDict: none yet)
ProbeDict(i) ==
    IF i \in DOMAIN fresult THEN fresult[i]
    ELSE IF \E w \in Workers : wtask[w] = i /\ wpc[w] = "store_found"
         THEN wres[CHOOSE w \in Workers : wtask[w] = i /\ wpc[w] = "store_found"]
         ELSE NoDict

\* the records of a list that are findings, that carry an error
Findings(res) == {k \in 1..Len(res) : "success" \in DOMAIN res[k] /\ res[k].success}
Errors(res) == {k \in 1..Len(res) : "error" \in DOMAIN res[k]}

\* C1: when the first k < max_retries outcomes of a probe are retryable and
\* outcome k+1 is a non-retryable response, the probe has made exactly k+1
\* attempts and has returned that response: its dict carries the status of
\* that response and no error
RetryThenSuccess ==
    \A i \in Idx : \A k \in 0..(max_retries - 1) :
        ( /\ Len(history[i]) > k
          /\ \A j \in 1..k : history[i][j] # "final"
          /\ history[i][k + 1] = "final" )
        => /\ sent[i] = k + 1
           /\ "status_code" \in DOMAIN ProbeDict(i)
           /\ ProbeDict(i).status_code = Response[last[i]].status_code
           /\ "error" \notin DOMAIN ProbeDict(i)

\* two retryable outcomes, then a 200 that is returned
RetryThenSuccessWitness ==
    \E i \in DOMAIN fresult :
        /\ Len(history[i]) = 3
        /\ history[i][1] = "retryable" /\ history[i][2] = "retryable"
        /\ history[i][3] = "final"
        /\ sent[i] = 3
        /\ fresult[i].status_code = 200

\* C2: when every attempt of a finished probe gave a retryable response,
\* exactly max_retries attempts were made and the probe ended with the dict
\* of the last response: that status, no finding, no error
RetryExhaustion ==
    \A i \in DOMAIN fresult :
        (\A j \in 1..Len(history[i]) : history[i][j] = "retryable")
        => /\ sent[i] = max_retries
           /\ "status_code" \in DOMAIN fresult[i]
           /\ fresult[i].status_code = Response[last[i]].status_code
           /\ fresult[i].success = FALSE
           /\ "error" \notin DOMAIN fresult[i]

\* max_retries retryable responses, the last one a 500, and the scan returned
RetryExhaustionWitness ==
    /\ returned.done
    /\ \E i \in DOMAIN fresult :
        /\ Len(history[i]) = max_retries
        /\ \A j \in 1..Len(history[i]) : history[i][j] = "retryable"
        /\ fresult[i].status_code = 500

\* the end-to-end scenario has been scanned and scan_paths has returned
EndToEndReturned == stub = EndToEndStub /\ returned.done

\* the record of a returned scan for a path
RecordOf(path) ==
    returned.value[CHOOSE k \in 1..Len(returned.value) : returned.value[k].path = path]

\* C3 as stated: the end-to-end scan has exactly one finding, /api
EndToEndOneFinding ==
    EndToEndReturned
    => /\ {returned.value[k].path : k \in Findings(returned.value)} = {"/api"}
       /\ RecordOf("/admin").status_code = 403 /\ ~RecordOf("/admin").success
       /\ ~RecordOf("/health").success

\* C3 amended: the end-to-end scan has no finding: /api is a non-finding with
\* status 200 whose 11 bytes do not exceed the threshold, /admin a non-finding
\* with status 403, /health a non-finding of 0 bytes
EndToEndNoFinding ==
    EndToEndReturned
    => /\ Len(returned.value) = 3
       /\ Findings(returned.value) = {}
       /\ Errors(returned.value) = {}
       /\ RecordOf("/api").status_code = 200
       /\ RecordOf("/api").content_length = 11
       /\ RecordOf("/api").content_length <= LENGTH_THRESHOLD
       /\ RecordOf("/admin").status_code = 403
       /\ RecordOf("/health").status_code = 200
       /\ RecordOf("/health").content_length = 0

\* the status-200 text/html dicts of a given content length
HtmlDicts(n) ==
    {i \in Idx : /\ "status_code" \in DOMAIN ProbeDict(i)
                 /\ ProbeDict(i).status_code = 200
                 /\ ProbeDict(i).content_type = CT_HTML
                 /\ ProbeDict(i).content_length = n}

\* C4 as stated: 19 bytes is not a finding, 20 bytes is
BoundaryAtThreshold ==
    /\ \A i \in HtmlDicts(LENGTH_THRESHOLD - 1) : ~ProbeDict(i).success
    /\ \A i \in HtmlDicts(LENGTH_THRESHOLD) : ProbeDict(i).success

\* C4 amended: 19 bytes and exactly 20 bytes are not findings, 21 bytes is
BoundaryAboveThreshold ==
    /\ \A i \in HtmlDicts(LENGTH_THRESHOLD - 1) : ~ProbeDict(i).success
    /\ \A i \in HtmlDicts(LENGTH_THRESHOLD) : ~ProbeDict(i).success
    /\ \A i \in HtmlDicts(LENGTH_THRESHOLD + 1) : ProbeDict(i).success

\* a returned scan holds a 200 text/html record of exactly 20 bytes
BoundaryWitness ==
    /\ returned.done
    /\ \E k \in 1..Len(returned.value) :
          /\ returned.value[k].status_code = 200
          /\ returned.value[k].content_type = CT_HTML
          /\ returned.value[k].content_length = LENGTH_THRESHOLD

\* C5 as stated: when scan_paths returns, found_count is the number of
\* findings and error_count the number of error records
NoLostUpdates ==
    returned.done
    => /\ found_count = Cardinality(Findings(returned.value))
       /\ error_count = Cardinality(Errors(returned.value))

\* C6: when scan_paths returns, the list holds exactly one record per path
OneRecordPerPath ==
    returned.done
    => /\ Len(returned.value) = Len(paths)
       /\ \A i \in Idx :
            Cardinality({k \in 1..Len(returned.value) :
                            returned.value[k].path = paths[i]}) = 1

\* a returned scan of several paths with an error record and a finding
OneRecordPerPathWitness ==
    /\ returned.done
    /\ Len(paths) >= 2
    /\ Errors(returned.value) # {}
    /\ Findings(returned.value) # {}

\* C7 as stated: once the signal has been handled, no queued path is started
NoStartAfterCancel ==
    [][interrupted => \A i \in Range(queue) : i \in Range(queue')]_vars

\* C8 as stated: an interrupted scan hands the records of the probes that
\* completed to its caller
PartialResultsReturned ==
    (mainpc = "exited" /\ DOMAIN fresult # {})
    => /\ returned.done
       /\ \A i \in DOMAIN fresult :
            \E k \in 1..Len(returned.value) : returned.value[k].path = paths[i]

\* C9 as stated: no path gets more attempts than scanning.max_retries
AttemptsWithinConfig ==
    \A i \in Idx : sent[i] <= config.max_retries

IndexOf(r) == CHOOSE i \in Idx : paths[i] = r.path

\* C11: every record of the result list carries an error or a status code,
\* never both: the record of a probe whose last attempt raised has an error
\* and no status code, the record of a probe that ended with a response, of
\* whatever status, has that status and no error
ResultShape ==
    \A k \in 1..Len(results) :
        LET r == results[k]
            o == last[IndexOf(r)]
        IN  /\ ("error" \in DOMAIN r) # ("status_code" \in DOMAIN r)
            /\ o \in Exceptions => "error" \in DOMAIN r
            /\ o \in DOMAIN Response
                  => /\ "error" \notin DOMAIN r
                     /\ r.status_code = Response[o].status_code

\* the list holds an error record next to a record with status 500
ResultShapeWitness ==
    /\ Errors(results) # {}
    /\ \E k \in 1..Len(results) :
          "status_code" \in DOMAIN results[k] /\ results[k].status_code = 500

\* the responses of the HTTP layer whose body carries a challenge signature
ChallengeBodies == {"waf403", "waf406"}

\* the retry decision as the claim states it
ClaimedRetry(o) ==
    \/ Response[o].status_code \in {429, 420}
    \/ Response[o].status_code >= 500
    \/ Response[o].status_code \in {403, 406} /\ o \in ChallengeBodies

\* C12: after a response, the probe retries exactly when the status is 429
\* or 420, or >= 500, or 403/406 with a challenge signature in the body (and
\* attempts are left); after every other response (404, plain 403 or 406, 3xx,
\* 200) the probe has returned that response, and when that was the first
\* outcome the path got exactly one attempt
RetryDecision ==
    \A i \in Idx :
        /\ ( /\ Len(history[i]) > 0
             /\ sent[i] = Len(history[i])
             /\ last[i] \in DOMAIN Response )
           => IF ClaimedRetry(last[i]) /\ Len(history[i]) < max_retries
              THEN /\ i \notin DOMAIN fresult
                   /\ \E w \in Workers : /\ wtask[w] = i
                                         /\ wpc[w] = "request"
                                         /\ attempt[w] = Len(history[i])
              ELSE /\ "status_code" \in DOMAIN ProbeDict(i)
                   /\ ProbeDict(i).status_code = Response[last[i]].status_code
        /\ ( /\ Len(history[i]) > 0
             /\ last[i] \in DOMAIN Response
             /\ ~ClaimedRetry(last[i]) )
           => sent[i] = Len(history[i])
        /\ (Len(history[i]) = 1 /\ last[i] \in DOMAIN Response /\ ~ClaimedRetry(last[i]))
           => sent[i] = 1

\* a 406 with a challenge body was retried, then a plain 406 was returned
RetryDecisionWitness ==
    \E i \in DOMAIN fresult :
        /\ history[i] = <<"retryable", "final">>
        /\ last[i] = "r406"
        /\ sent[i] = 2
        /\ fresult[i].status_code = 406

\* the content types of the HTTP layer that contain text, json, javascript,
\* html or xml
TextualTypes == {CT_JSON, CT_HTML, CT_PLAIN}

\* C13: a probe's dict is a finding exactly when the response has status 200,
\* more than LENGTH_THRESHOLD bytes and a textual content type; the outcome
\* of saving the content does not change the flag
FindingClassification ==
    \A i \in Idx :
        "status_code" \in DOMAIN ProbeDict(i)
        => LET resp == Response[last[i]]
           IN  /\ ProbeDict(i).success =
                     ( /\ resp.status_code = 200
                       /\ Len(resp.text) > LENGTH_THRESHOLD
                       /\ resp.content_type \in TextualTypes )
               /\ "saved" \in DOMAIN ProbeDict(i) => ProbeDict(i).success

\* a returned scan holds a finding whose content was not saved
FindingClassificationWitness ==
    /\ returned.done
    /\ \E k \in Findings(returned.value) : returned.value[k].saved = FALSE

\* the pool threads that are executing a probe
Busy == {w \in 1..MaxWorkers : wtask[w] # 0}

\* C14: at every moment at most scanning.max_workers probes are executing,
\* each on a thread of its own; a thread leaves its probe only when the
\* probe's record has been produced, and takes nothing new before that
BoundedPool ==
    /\ [](/\ Cardinality(Busy) <= config.max_workers
          /\ \A w, v \in Busy : wtask[w] = wtask[v] => w = v
          /\ \A w \in Busy : wtask[w] \notin DOMAIN fresult)
    /\ [][\A w \in 1..MaxWorkers :
            (wtask[w] # 0 /\ wtask'[w] # wtask[w])
            => /\ wtask'[w] = 0
               /\ wtask[w] \in DOMAIN fresult']_vars

\* every thread of the pool is busy, one of them with its second probe, and
\* a path is still waiting in the queue
BoundedPoolWitness ==
    /\ queue # <<>>
    /\ Cardinality(Busy) = config.max_workers
    /\ DOMAIN fresult # {}

\* the requests of path i whose outcome is not yet known
InFlight(i) == sent[i] - Len(history[i])

\* C15: a path never has more than one attempt in flight: a request is sent
\* only when the outcome of every earlier attempt of the path is known, and
\* the one in flight is the one a pool thread is blocked in
SequentialAttempts ==
    \A i \in Idx :
        /\ InFlight(i) \in {0, 1}
        /\ InFlight(i) =
              Cardinality({w \in 1..MaxWorkers : wtask[w] = i /\ wpc[w] = "await"})

\* attempts of two different paths are in flight at the same time, one of
\* them a retry
SequentialAttemptsWitness ==
    \E i, j \in Idx :
        /\ i # j
        /\ InFlight(i) = 1 /\ InFlight(j) = 1
        /\ sent[i] >= 2

\* C16: a scan that is not interrupted returns; it returns only when every
\* path has its record and no thread is still probing; no path gets more
\* than max_retries attempts, so a path that only times out holds its thread
\* for a bounded number of attempts
ScanCompletes ==
    /\ <>(returned.done \/ interrupted)
    /\ [](returned.done => /\ DOMAIN fresult = Idx
                           /\ Busy = {}
                           /\ queue = <<>>)
    /\ [](\A i \in Idx : sent[i] <= max_retries)

\* the scan has returned, one path with max_retries timeouts and an error
\* record, another with the record of a response
ScanCompletesWitness ==
    /\ returned.done
    /\ \E i, j \in Idx :
          /\ history[i] = [n \in 1..max_retries |-> "exception"]
          /\ \E k \in Errors(returned.value) : returned.value[k].path = paths[i]
          /\ \E k \in 1..Len(returned.value) :
                /\ returned.value[k].path = paths[j]
                /\ "status_code" \in DOMAIN returned.value[k]

\* C17 as stated: once scan_paths has returned its list, the list and the
\* counters do not change any more (a later record is refused)
FinalizedReadOnly ==
    [][returned.done => /\ scan_results' = scan_results
                        /\ found_count' = found_count
                        /\ error_count' = error_count]_vars

StartsWithSlash(p) == Len(p) > 0 /\ p[1] = "/"

\* C18 as stated: every path the generators produce begins with '/': the paths
\* of advanced_discovery_phase and, for a base path with a leading '/', the
\* states of generate_quantum_states
PrefixInvariant ==
    /\ \A k \in 1..Len(base_paths) : StartsWithSlash(base_paths[k])
    /\ \A k \in 1..Len(all_paths) : StartsWithSlash(all_paths[k])
    /\ \A k \in 1..Len(final_paths) : StartsWithSlash(final_paths[k])
    /\ StartsWithSlash(qpath) => \A p \in states : StartsWithSlash(p)

\* C19: no path of the list advanced_discovery_phase returns contains a
\* pattern of the denylist, and no path is in the list twice
StealthFilterExclusion ==
    dpc = "done"
    => /\ \A k \in 1..Len(final_paths) :
            \A pattern \in SUSPICIOUS_PATTERNS : ~Contains(final_paths[k], pattern)
       /\ \A j, k \in 1..Len(final_paths) : final_paths[j] = final_paths[k] => j = k

\* the phase has combined the catalog, the variations, crawled paths and
\* GitHub paths, has dropped candidates and returns the others
StealthFilterExclusionWitness ==
    /\ dpc = "done"
    /\ crawler.kind = "ok"
    /\ auto_download
    /\ final_paths # <<>>
    /\ Len(final_paths) < Len(all_paths)

\* the candidates of every source, before any filter
Candidates ==
    Range(base_paths)
    \cup (IF crawler.kind = "ok" THEN Range(crawler.paths) ELSE {})
    \cup (IF auto_download THEN Range(GITHUB_DEFAULT_PATHS) ELSE {})

\* C20 as stated: with stealth_mode the returned list is free of suspicious
\* paths, without stealth_mode no candidate is filtered out
FilterOnlyUnderStealth ==
    dpc = "done"
    => IF stealth_mode
       THEN \A k \in 1..Len(final_paths) : ~IsSuspiciousPath(final_paths[k])
       ELSE Candidates \subseteq Range(final_paths)

\* the base the claim gives every class of failure: the factor of the class
\* times the number of the attempt that failed
ClaimedBase(w) ==
    IF w.cause \in {"r429", "r420"} THEN (w.after + 1) * 5
    ELSE IF w.cause \in Exceptions THEN (w.after + 1) * EXCEPT_BASE_DELAY[w.cause]
    ELSE IF w.cause \in ChallengeBodies THEN (w.after + 1) * 4
    ELSE (w.after + 1) * 3

\* C25 as stated: before every attempt after the first a delay has been
\* applied, and the base of every delay grows with the number of the attempt
\* that failed, whatever the class of the failure
BackoffScales ==
    /\ Len(rq_waits) = rq_attempt
    /\ \A k \in 1..Len(rq_waits) : rq_waits[k].base = ClaimedBase(rq_waits[k])

\* C29: a sleep of smart_request is followed by another attempt: there are at
\* most max_retries - 1 sleeps, none after the last attempt, none when the
\* first attempt gives a response that is not retried, none at all with
\* max_retries = 1
NoWaitAfterLastAttempt ==
    /\ Len(rq_waits) <= rq_max_retries - 1
    /\ \A k \in 1..Len(rq_waits) : rq_waits[k].after < rq_max_retries - 1
    /\ rq_pc = "done" => \A k \in 1..Len(rq_waits) : rq_waits[k].after + 1 < rq_sent
    /\ rq_pc = "done" /\ rq_sent = 1 => rq_waits = <<>>
    /\ rq_max_retries = 1 => rq_waits = <<>>

\* the call used its whole budget of three attempts and slept twice
NoWaitAfterLastAttemptWitness ==
    /\ rq_pc = "done"
    /\ rq_max_retries = 3
    /\ rq_sent = 3
    /\ Len(rq_waits) = 2
    /\ rq_result = "None"

\* C21 as stated: with scanning.max_workers outside 1..50 the scan ends with
\* an error before a probe is dispatched: no executor of that size, no probe
FailFastOutOfRange ==
    ld_file.max_workers \notin VALIDATION_RULES.max_workers.min..VALIDATION_RULES.max_workers.max
    => /\ ld_pool = 0
       /\ ld_dispatched = 0
       /\ ld_pc \in {"submit", "failed"} => ld_error # "none"

\* the lines of the file that hold a valid URL, in file order
ValidLines == SelectSeq([k \in 1..Len(bt_urls) |-> k],
                        LAMBDA k : ValidateAndFixUrl(bt_urls[k]) # <<>>)

\* C22: the batch attempts a scan for every valid URL in file order, whatever
\* happened to the targets before it; every attempt is reported as completed
\* or failed for its own line, and an invalid URL is skipped
BatchIsolation ==
    /\ bt_attempted = SelectSeq(ValidLines, LAMBDA k : k <= bt_i)
    /\ Len(bt_report) = bt_i
    /\ \A k \in 1..Len(bt_report) :
          /\ bt_report[k][1] = k
          /\ bt_report[k][2] = "skipped" <=> ValidateAndFixUrl(bt_urls[k]) = <<>>
    /\ bt_pc = "done" => bt_attempted = ValidLines

\* the scan of the first target raised and the second target was scanned
BatchIsolationWitness ==
    /\ bt_pc = "done"
    /\ Len(bt_urls) = 2
    /\ bt_report[1][2] = "failed"
    /\ bt_attempted = <<1, 2>>

\* C23: the list generate_quantum_paths returns holds at most max_paths
\* paths and no path twice
FuzzerOutputBound ==
    qp_pc = "done"
    => /\ Len(qp_final) <= qp_max
       /\ \A j, k \in 1..Len(qp_final) : qp_final[j] = qp_final[k] => j = k

\* one base path gave more than max_paths variations before the limit was
\* looked at, and the returned list is full
FuzzerOutputBoundWitness ==
    /\ qp_pc = "done"
    /\ qp_i = 1
    /\ qp_max = 10
    /\ Len(qp_paths) > qp_max
    /\ Len(qp_final) = qp_max

\* C24: from the entry of scan_paths until it is left, no step changes the
\* scanner's configuration: the workers all see the max_workers, timeout and
\* stealth_mode of the start of the scan
ConfigReadOnly ==
    [][(mainpc \in {"submit", "collect", "shutdown"})
       => (config' = config /\ stealth_mode' = stealth_mode)]_vars

\* two pool threads are inside scan_single_path at once
ConfigReadOnlyWitness ==
    /\ mainpc = "collect"
    /\ config.max_workers = 2
    /\ \A w \in Workers : wpc[w] # "idle"

\* C26: execute_with_retry calls func at most max_retries times; it returns
\* the result of the first call that does not raise and calls no more; when
\* max_retries calls raised it raises the exception of the last one; a
\* healing strategy ran after every failed call but the max_retries-th
RetryContract ==
    LET failed == {k \in 1..Len(hl_calls) : hl_calls[k] # "returns"}
    IN  /\ Len(hl_calls) <= hl_max_retries
        /\ \A k \in 1..Len(hl_calls) : hl_calls[k] = "returns" => k = Len(hl_calls)
        /\ hl_pc = "done" /\ hl_outcome.kind = "return" /\ hl_max_retries > 0
           => /\ hl_calls[Len(hl_calls)] = "returns"
              /\ hl_outcome.call = Len(hl_calls)
        /\ hl_pc = "done" /\ hl_outcome.kind = "raise"
           => /\ Len(hl_calls) = hl_max_retries
              /\ failed = 1..hl_max_retries
              /\ hl_outcome.call = hl_max_retries
              /\ hl_outcome.error_type = hl_calls[hl_max_retries]
        /\ hl_pc = "done" /\ failed = 1..hl_max_retries /\ hl_max_retries > 0
           => hl_outcome.kind = "raise"
        /\ hl_pc # "func"
           => /\ Len(hl_heals) = Cardinality(failed \ {hl_max_retries})
              /\ \A k \in 1..Len(hl_heals) :
                    /\ hl_heals[k].attempt + 1 \in failed \ {hl_max_retries}
                    /\ hl_heals[k].attempt = k - 1

\* three calls raised and were all healed but the last, whose exception is
\* raised
RetryContractWitness ==
    /\ hl_pc = "done"
    /\ hl_max_retries = 3
    /\ hl_outcome.kind = "raise"
    /\ Len(hl_calls) = 3
    /\ Len(hl_heals) = 2

\* C27 as stated: a crawl never issues a request for more than max_pages URLs
CrawlBudget == Len(cr_requests) <= cr_max_pages

\* C28: the counts of final_report are those of the records: the number of
\* records, of records marked as finding, of records with an error; no more
\* saved files than findings, and findings and errors together no more than
\* records
ReportCounts ==
    rp_pc = "done"
    => LET n == Len(rp_results)
           findings == {k \in 1..n : "success" \in DOMAIN rp_results[k]
                                       /\ rp_results[k].success}
           failed == {k \in 1..n : "error" \in DOMAIN rp_results[k]}
       IN  /\ rp_report.total_paths_scanned = n
           /\ rp_report.successful_finds = Cardinality(findings)
           /\ rp_report.errors_count = Cardinality(failed)
           /\ rp_report.saved_files <= rp_report.successful_finds
           /\ rp_report.successful_finds + rp_report.errors_count
                 <= rp_report.total_paths_scanned

\* the report of a list with a finding that was not saved and a record with
\* an error
ReportCountsWitness ==
    /\ rp_pc = "done"
    /\ rp_report.successful_finds = 1
    /\ rp_report.saved_files = 0
    /\ rp_report.errors_count = 1

\* C30 as stated: whenever the proxy list is not empty the rotation index is
\* inside it, and get_next_proxy never fails
ProxyIndexInRange ==
    /\ px_proxies # <<>> => px_current_index < Len(px_proxies)
    /\ px_last # "IndexError"

====
